---- MODULE Spec2Model ----
(***************************************************************************)
(* Homunculus: mention-to-reply pipeline, two-stage qmd retrieval and the   *)
(* budgeted prompt builder, modelled from the Python sources.               *)
(*                                                                          *)
(* Conventions                                                              *)
(*   - a Python Optional[T] is a set with at most one element: None is {},  *)
(*     a present value v is {v};                                            *)
(*   - a Python str whose characters matter (queries, names) is a sequence  *)
(*     of one-character strings;                                            *)
(*   - a text whose token count matters (prompts) is a sequence of tokens,  *)
(*     each token a record naming the section and line it comes from.       *)
(*                                                                          *)
(* The specifications share the variables: SpecRetrieve (QmdAdapter),      *)
(* SpecPipeline (ResponsePipeline.on_message), SpecBuild (PromptBuilder),   *)
(* SpecScheduler (QmdIndexScheduler with its command runner), SpecRuntime   *)
(* (the scheduler under RuntimeApp.stop), SpecRouter (MentionRouter),       *)
(* SpecHandler (DiscordMessageHandler.handle), SpecCollector                *)
(* (RecentMessageCollector.collect), SpecExtractor (MemoryExtractor),       *)
(* SpecConcurrent (the channels' on_message invocations interleaved),       *)
(* SpecApp (RuntimeApp over its services), SpecManager                      *)
(* (AgentIdentityManager.hot_swap) and SpecJournal (extraction tasks        *)
(* appending to the journal files).                                         *)
(***************************************************************************)
EXTENDS Integers, Sequences, FiniteSets, TLC

VARIABLES
    \* QmdAdapter.retrieve, one call
    r_pc,            \* "start" | "await_query" | "await_search" | "returned" | "raised"
    r_input,         \* [query, npc_name, top_k]: the arguments of the call
    r_calls,         \* the command runner's invocations, in order
    r_attempts,      \* the _Attempt values produced so far, in order
    r_result,        \* Optional[RetrievalResult]: the value returned
    r_exc,           \* Optional[str]: the exception that left retrieve
    \* ResponsePipeline.on_message, one call, and the detached extraction task
    p_pc,            \* position of the coroutine
    p_args,          \* the arguments of the call and the pipeline's wiring
    p_recent,        \* recent_messages (collected history)
    p_retrieval,     \* Optional[RetrievalResult]
    p_excerpt,       \* effective_skill_rules_excerpt
    p_prompt,        \* Optional[PromptBuildResult]
    p_response,      \* Optional[LlmResponse]
    p_calls,         \* collaborator invocations, in order
    p_answers,       \* what the collaborators answered (returned or raised), in order
    p_outcome,       \* Optional[PipelineOutcome]: the value returned
    p_exc,           \* Optional[str]: the exception that left on_message
    x_task,          \* the extraction task: "none" | "pending" | "done" | "failed"
    \* PromptBuilder.build, one call
    b_pc,            \* "start" | "built"
    b_input,         \* [budget, card_words, excerpt, memories, history]
    b_result,        \* Optional[PromptBuildResult]
    \* QmdIndexScheduler.run_forever, one call, and the processes its runner spawns
    s_pc,            \* "start" | "await_runner" | "await_stop" | "returned" | "raised" | "cancelled"
    s_input,         \* [namespace, npc_name]: constructor and call arguments
    s_stop,          \* stop_event.is_set()
    s_step,          \* index of the step run_once is at (1 update, 2 embed)
    s_calls,         \* the command runner's invocations, in order
    s_runs,          \* the run_once calls: [stop_at_start, result]
    s_exc,           \* Optional[str]: the exception that left run_forever
    c_pc,            \* _run_command: "idle" | "communicate" | "drain"
    c_procs,         \* the child processes spawned, in order
    \* RuntimeApp
    a_started,       \* RuntimeApp._started
    \* MentionListener with its MentionRouter
    d_config,        \* MentionRouterConfig: [channel_id, ignore_bot_authors]
    d_bot_user_id,   \* Optional[int]: what the bot_user_id_provider answers
    d_log,           \* the handle_message calls: [message, bot_user_id, outcome]
    d_handled,       \* the messages passed to the mention handler, in order
    \* DiscordMessageHandler.handle, one call
    h_pc,            \* position of the coroutine
    h_message_id,    \* Optional[int]: getattr(message, "message_id", None)
    h_ops,           \* the operations the handler invoked on the sender, in order
    h_exc,           \* Optional[str]: the exception that left handle
    \* RecentMessageCollector.collect, one call
    k_pc,            \* "idle" | "start" | "await_provider" | "returned" | "raised"
    k_input,         \* [default_limit, limit, provider]: the collector, the argument, the provider's answer
    k_calls,         \* the limits the provider was asked with, in order
    k_result,        \* the tuple returned
    k_exc,           \* Optional[str]: the exception that left collect
    \* MemoryExtractor.extract_and_append, one call
    e_pc,            \* "idle" | "start" | "await_complete" | "over"
    e_input,         \* [namespace, npc_name, memory_namespace, completion, files]
    e_calls,         \* number of completion requests made
    e_journal,       \* the journal entries appended, in order: [path, entry]
    e_result,        \* Optional: Returned(bool) or RaisedWith(exc), how the call ended
    \* on_message invocations of the channels' pipelines, run concurrently
    m_identity,      \* Optional[int]: the bot_user_id of the listeners
    m_in,            \* per channel: the message and what the collaborators will answer
    m_inv,           \* per channel: the invocation's position, locals and result
    m_sent,          \* per sender: the texts sent through it, in order
    \* RuntimeApp with its services: start, stop and run called on it
    g_pc,            \* "idle" | "ready" | "starting" | "waiting" | "stopping"
    g_call,          \* [op, started]: the call in progress or last made, _started when it began
    g_calls,         \* number of calls made
    g_index,         \* position of the service loop
    g_log,           \* the services' start() and stop() calls of this call, as they ended
    g_running,       \* the services whose start() has completed and whose stop() has not
    g_shutdown,      \* shutdown_event.is_set()
    g_result,        \* Optional: Returned(TRUE) or RaisedWith(exc), how the call ended
    \* AgentIdentityManager.hot_swap, called repeatedly, and the data home
    w_pc,            \* "idle" | "ready" | "await_hook"
    w_call,          \* the call in progress or last made: its argument and the state it found
    w_swaps,         \* number of hot_swap calls made
    w_identity,      \* _current_identity.npc_name
    w_hook,          \* whether the manager has an identity hook
    w_roots,         \* data_home/agents: per directory name "absent", "data" or "fresh"
    w_archive,       \* data_home/archive: the names whose trees were moved there, in order
    w_result,        \* Optional: Returned(result) or RaisedWith(exc), how the call ended
    \* extract_and_append tasks of one event loop and the journal files
    j_pc,            \* per task: "idle" | "start" | "await_complete" | "over"
    j_in,            \* per task: [namespace, npc_name, memory_namespace, completion, files]
    j_result,        \* per task: Optional Returned(bool), how the call ended
    j_files          \* per journal path: the characters of the file

r_vars == <<r_pc, r_input, r_calls, r_attempts, r_result, r_exc>>
p_vars == <<p_pc, p_args, p_recent, p_retrieval, p_excerpt, p_prompt, p_response,
            p_calls, p_answers, p_outcome, p_exc, x_task>>
b_vars == <<b_pc, b_input, b_result>>
s_vars == <<s_pc, s_input, s_stop, s_step, s_calls, s_runs, s_exc, c_pc, c_procs>>
a_vars == <<a_started>>
d_vars == <<d_config, d_bot_user_id, d_log, d_handled>>
h_vars == <<h_pc, h_message_id, h_ops, h_exc>>
k_vars == <<k_pc, k_input, k_calls, k_result, k_exc>>
e_vars == <<e_pc, e_input, e_calls, e_journal, e_result>>
m_vars == <<m_identity, m_in, m_inv, m_sent>>
g_vars == <<g_pc, g_call, g_calls, g_index, g_log, g_running, g_shutdown, g_result>>
w_vars == <<w_pc, w_call, w_swaps, w_identity, w_hook, w_roots, w_archive, w_result>>
j_vars == <<j_pc, j_in, j_result, j_files>>
o_vars == <<g_vars, w_vars, j_vars>>
n_vars == <<a_vars, d_vars, h_vars, k_vars, e_vars, m_vars, o_vars>>
vars == <<r_vars, p_vars, b_vars, s_vars, n_vars>>

----------------------------------------------------------------------------
(* Optional values and strings                                              *)

None == {}
Some(v) == {v}
The(opt) == CHOOSE v \in opt : TRUE

SeqsUpTo(S, n) == UNION {[1..k -> S] : k \in 0..n}

RECURSIVE lstrip(_)
lstrip(s) == IF s # <<>> /\ Head(s) = " " THEN lstrip(Tail(s)) ELSE s

RECURSIVE rstrip(_)
rstrip(s) == IF s # <<>> /\ s[Len(s)] = " " THEN rstrip(SubSeq(s, 1, Len(s) - 1)) ELSE s

strip(s) == rstrip(lstrip(s))

IsPrefix(a, b) == Len(a) <= Len(b) /\ a = SubSeq(b, 1, Len(a))

\* Python's  a or b  on Optional[str]: the first operand unless it is None or "".
StrOr(a, b) == IF a # None /\ The(a) # <<>> THEN a ELSE b

----------------------------------------------------------------------------
(* Settings (config/settings.py) and the adapter's construction             *)

query_timeout_seconds == 4
fallback_timeout_seconds == 2
settings_top_k == 10
settings_npc_name == <<"k">>
data_home == "~/.homunculus"
qmd_binary == "qmd"

\* Bounds of the model
MaxQueryLen == 3
max_query_chars == 2

QueryChars == {"a", " "}
Queries == SeqsUpTo(QueryChars, MaxQueryLen)
NpcNameArgs == {None, Some(<<>>), Some(<<" ">>), Some(<<"e">>), Some(<<" ", "e">>)}
TopKArgs == {None, Some(0), Some(3)}

----------------------------------------------------------------------------
(* JSON as the external tool prints it                                      *)
(*                                                                          *)
(* A JSON value is a record [t, s, n]: t its type, s its string (for a      *)
(* nested object: the object's "text" field), n its number in tenths.       *)
(* "bigint" is an integer literal beyond the range of a float.  A string is *)
(* one of a few atoms; " " stands for any whitespace-only string.           *)

JStr(s) == [t |-> "str", s |-> s, n |-> 0]
JNum(n) == [t |-> "num", s |-> "", n |-> n]
JBool == [t |-> "bool", s |-> "", n |-> 1]
JBigInt == [t |-> "bigint", s |-> "", n |-> 0]
JObj(text) == [t |-> "obj", s |-> text, n |-> 0]

\* A list element: a JSON object (m = TRUE, f its fields) or anything else.
JItem(fields) == [m |-> TRUE, f |-> fields]
JNonMapping == [m |-> FALSE, f |-> [k \in {} |-> JBool]]

ItemScenarioB == JItem([content |-> JStr("fallback-memory"), source |-> JStr("MEMORY.md"),
                        score |-> JNum(4)])
ItemAliases == JItem([text |-> JStr(" "), snippet |-> JStr("snip"), path |-> JStr("p.md"),
                      score |-> JStr("0.4")])
ItemDocument == JItem([document |-> JObj("doc"), score |-> JBool])
ItemNoText == JItem([source |-> JStr("MEMORY.md")])
ItemBigScore == JItem([text |-> JStr("t"), score |-> JBigInt])

\* stdout of the tool: shape "invalid" is text that is not JSON, "nested" is
\* brackets nested deeper than the decoder's recursion limit, "scalar" a JSON
\* number or string, "object" an object whose only list-valued key is key.
Payload(shape, key, items) == [shape |-> shape, key |-> key, items |-> items]
PayloadInvalid == Payload("invalid", "", <<>>)
Payloads ==
    { PayloadInvalid,
      Payload("nested", "", <<>>),
      Payload("scalar", "", <<>>),
      Payload("object", "matches", <<ItemScenarioB>>),
      Payload("list", "", <<>>),
      Payload("list", "", <<ItemScenarioB>>),
      Payload("object", "results", <<ItemAliases, ItemNoText>>),
      Payload("object", "data", <<ItemDocument, JNonMapping>>),
      Payload("list", "", <<ItemBigScore>>) }

\* What awaiting the command runner yields: an exception, or a _CommandResult.
CommandResult(timed_out, returncode, stdout) ==
    [raised |-> FALSE, timed_out |-> timed_out, returncode |-> returncode, stdout |-> stdout]
RunnerRaises == [raised |-> TRUE, timed_out |-> FALSE, returncode |-> 0, stdout |-> PayloadInvalid]
RunnerOutcomes ==
    { RunnerRaises,
      CommandResult(TRUE, -1, PayloadInvalid),
      CommandResult(TRUE, 0, Payload("list", "", <<ItemScenarioB>>)),
      CommandResult(FALSE, 1, Payload("list", "", <<ItemScenarioB>>)) }
    \cup { CommandResult(FALSE, 0, p) : p \in Payloads }

----------------------------------------------------------------------------
(* qmd_adapter.py: pure helpers                                             *)

\* Mutant: the query is trimmed but not cut.
_normalize_query_NoCap(query, max_chars) == strip(query)

_normalize_query(query, max_chars) ==
    LET normalized == strip(query)
    IN  IF Len(normalized) <= max_chars THEN normalized
        ELSE rstrip(SubSeq(normalized, 1, max_chars))

\* dict.get: Optional value of a field.
Get(item, key) == IF key \in DOMAIN item.f THEN Some(item.f[key]) ELSE None

\* str.strip on a string atom.
StripAtom(s) == IF s = " " THEN "" ELSE s

RECURSIVE _first_non_empty_str(_)
_first_non_empty_str(values) ==
    IF values = <<>> THEN ""
    ELSE LET value == Head(values)
         IN  IF value # None /\ The(value).t = "str" /\ StripAtom(The(value).s) # ""
             THEN StripAtom(The(value).s)
             ELSE _first_non_empty_str(Tail(values))

_pick_text(item) ==
    LET direct == _first_non_empty_str(<<Get(item, "text"), Get(item, "content"),
                                         Get(item, "snippet"), Get(item, "body")>>)
        document == Get(item, "document")
    IN  IF direct # "" THEN direct
        ELSE IF document # None /\ The(document).t = "obj"
             THEN StripAtom(The(document).s)
             ELSE ""

_pick_source(item) ==
    LET source == _first_non_empty_str(<<Get(item, "source"), Get(item, "path"),
                                         Get(item, "file"), Get(item, "file_path"),
                                         Get(item, "uri")>>)
    IN  IF source # "" THEN source ELSE "unknown"

\* float(str): the numeric strings of the model, in tenths; None is ValueError.
FloatOfStr(s) == IF s = "0.4" THEN Some(4) ELSE None

\* _to_float returns [exc, value]: float(int) raises OverflowError on an
\* integer beyond the float range, and _to_float does not catch it.
_to_float(value) ==
    IF value = None THEN [exc |-> None, value |-> 0]
    ELSE LET v == The(value)
         IN  CASE v.t = "bool" -> [exc |-> None, value |-> 0]
               [] v.t = "num" -> [exc |-> None, value |-> v.n]
               [] v.t = "bigint" -> [exc |-> Some("OverflowError"), value |-> 0]
               [] v.t = "str" ->
                    IF FloatOfStr(StripAtom(v.s)) # None
                    THEN [exc |-> None, value |-> The(FloatOfStr(StripAtom(v.s)))]
                    ELSE [exc |-> None, value |-> 0]
               [] OTHER -> [exc |-> None, value |-> 0]

MemoryRecord(text, source, score, mode) ==
    [text |-> text, source |-> source, score |-> score, mode |-> mode]

\* The loop of _parse_records over items: [exc, records].
RECURSIVE ParseItems(_, _, _)
ParseItems(items, mode, records) ==
    IF items = <<>> THEN [exc |-> None, records |-> records]
    ELSE LET item == Head(items)
         IN  IF ~item.m \/ _pick_text(item) = ""
             THEN ParseItems(Tail(items), mode, records)
             ELSE LET score == _to_float(Get(item, "score"))
                  IN  IF score.exc # None THEN [exc |-> score.exc, records |-> <<>>]
                      ELSE ParseItems(Tail(items), mode,
                               Append(records, MemoryRecord(_pick_text(item), _pick_source(item),
                                                            score.value, mode)))

ListKeys == {"results", "items", "hits", "data"}

\* Mutant: every record is tagged with mode "query", whatever the attempt.
_parse_records_AlwaysQueryMode(raw_output, mode) ==
    CASE raw_output.shape = "invalid" -> [exc |-> Some("ValueError"), records |-> <<>>]
      [] raw_output.shape = "nested" -> [exc |-> Some("RecursionError"), records |-> <<>>]
      [] raw_output.shape = "list" -> ParseItems(raw_output.items, "query", <<>>)
      [] raw_output.shape = "object" /\ raw_output.key \in ListKeys ->
             ParseItems(raw_output.items, "query", <<>>)
      [] OTHER -> [exc |-> Some("ValueError"), records |-> <<>>]

\* _parse_records returns [exc, records]; exc is the exception it raises.
_parse_records(raw_output, mode) ==
    CASE raw_output.shape = "invalid" -> [exc |-> Some("ValueError"), records |-> <<>>]
      [] raw_output.shape = "nested" -> [exc |-> Some("RecursionError"), records |-> <<>>]
      [] raw_output.shape = "list" -> ParseItems(raw_output.items, mode, <<>>)
      [] raw_output.shape = "object" /\ raw_output.key \in ListKeys ->
             ParseItems(raw_output.items, mode, <<>>)
      [] OTHER -> [exc |-> Some("ValueError"), records |-> <<>>]

----------------------------------------------------------------------------
(* QmdAdapter.retrieve                                                      *)

RetrievalError(type, query_error_type, fallback_error_type) ==
    [type |-> type, query_error_type |-> query_error_type,
     fallback_error_type |-> fallback_error_type]

RetrievalResult(records, mode, used_fallback, error) ==
    [records |-> records, mode |-> mode, used_fallback |-> used_fallback, error |-> error]

\* _Attempt without latency_ms, which only reaches the log.
_Attempt(result, error_type) == [result |-> result, error_type |-> error_type]

_build_env(npc_name) ==
    [XDG_CONFIG_HOME |-> <<data_home, "agents", npc_name, "qmd", "xdg-config">>,
     XDG_CACHE_HOME |-> <<data_home, "agents", npc_name, "qmd", "xdg-cache">>]

\* The arguments the command runner is awaited with.
RunnerCall(mode, query, top_k, timeout_seconds, env) ==
    [args |-> <<qmd_binary, mode, "--json", "-n", top_k, query>>,
     env |-> env, timeout_seconds |-> timeout_seconds]

\* _attempt after the runner has answered: [exc, attempt].  exc is the
\* exception that leaves _attempt; only ValueError from _parse_records and
\* Exception from the runner are caught.
_attempt(mode, outcome) ==
    IF outcome.raised THEN [exc |-> None, attempt |-> _Attempt(None, Some("runner_exception"))]
    ELSE IF outcome.timed_out THEN [exc |-> None, attempt |-> _Attempt(None, Some("timeout"))]
    ELSE IF outcome.returncode # 0
         THEN [exc |-> None, attempt |-> _Attempt(None, Some("non_zero_exit"))]
    ELSE LET parsed == _parse_records(outcome.stdout, mode)
         IN  IF parsed.exc = Some("ValueError")
             THEN [exc |-> None, attempt |-> _Attempt(None, Some("parse_error"))]
             ELSE IF parsed.exc # None
             THEN [exc |-> parsed.exc, attempt |-> _Attempt(None, None)]
             ELSE [exc |-> None,
                   attempt |-> _Attempt(Some(RetrievalResult(parsed.records, Some(mode),
                                                             mode = "search", None)),
                                        None)]

normalized_query == _normalize_query(r_input.query, max_query_chars)
effective_npc_name == strip(The(StrOr(r_input.npc_name, Some(settings_npc_name))))
\* Mutant:  top_k or settings.top_k , which takes 0 for "not given".
effective_top_k_OrDefault ==
    IF r_input.top_k # None /\ The(r_input.top_k) # 0 THEN The(r_input.top_k)
    ELSE settings_top_k

effective_top_k == IF r_input.top_k # None THEN The(r_input.top_k) ELSE settings_top_k

\* The timeout each mode is attempted with.
TimeoutOf(mode) == IF mode = "query" THEN query_timeout_seconds ELSE fallback_timeout_seconds

SpawnAttempt(mode) ==
    r_calls' = Append(r_calls, RunnerCall(mode, normalized_query, effective_top_k,
                                          TimeoutOf(mode), _build_env(effective_npc_name)))

RetrieveReturn(result) ==
    /\ r_pc' = "returned"
    /\ r_result' = Some(result)
    /\ r_exc' = None

RetrieveRaise(exc) ==
    /\ r_pc' = "raised"
    /\ r_result' = None
    /\ r_exc' = exc

\* retrieve up to its first await: validation, then the query attempt starts.
RetrieveStart ==
    /\ UNCHANGED <<p_vars, b_vars, s_vars, n_vars>>
    /\ r_pc = "start"
    /\ UNCHANGED <<r_input, r_attempts>>
    /\ IF normalized_query = <<>>
       THEN /\ RetrieveReturn(RetrievalResult(<<>>, None, FALSE,
                                              Some(RetrievalError("invalid_query", None, None))))
            /\ UNCHANGED r_calls
       ELSE IF effective_npc_name = <<>>
       THEN /\ RetrieveReturn(RetrievalResult(<<>>, None, FALSE,
                                              Some(RetrievalError("invalid_npc_name", None, None))))
            /\ UNCHANGED r_calls
       ELSE IF effective_top_k <= 0
       THEN /\ RetrieveReturn(RetrievalResult(<<>>, None, FALSE,
                                              Some(RetrievalError("invalid_top_k", None, None))))
            /\ UNCHANGED r_calls
       ELSE /\ SpawnAttempt("query")
            /\ r_pc' = "await_query"
            /\ UNCHANGED <<r_result, r_exc>>

\* The query attempt answers; on failure the search attempt starts.
QueryAttemptDone ==
    /\ UNCHANGED <<p_vars, b_vars, s_vars, n_vars>>
    /\ r_pc = "await_query"
    /\ \E outcome \in RunnerOutcomes :
         LET query_attempt == _attempt("query", outcome)
         IN  /\ UNCHANGED r_input
             /\ IF query_attempt.exc # None
                THEN /\ RetrieveRaise(query_attempt.exc)
                     /\ UNCHANGED <<r_calls, r_attempts>>
                ELSE /\ r_attempts' = Append(r_attempts, query_attempt.attempt)
                     /\ IF query_attempt.attempt.result # None
                        THEN /\ RetrieveReturn(The(query_attempt.attempt.result))
                             /\ UNCHANGED r_calls
                        ELSE /\ SpawnAttempt("search")
                             /\ r_pc' = "await_search"
                             /\ UNCHANGED <<r_result, r_exc>>

\* Mutant: the both_failed result does not say that the fallback was used.
FallbackAttemptDone_FlagNotSet ==
    /\ UNCHANGED <<p_vars, b_vars, s_vars, n_vars>>
    /\ r_pc = "await_search"
    /\ \E outcome \in RunnerOutcomes :
         LET fallback_attempt == _attempt("search", outcome)
             query_attempt == r_attempts[1]
         IN  /\ UNCHANGED <<r_input, r_calls>>
             /\ IF fallback_attempt.exc # None
                THEN /\ RetrieveRaise(fallback_attempt.exc)
                     /\ UNCHANGED r_attempts
                ELSE /\ r_attempts' = Append(r_attempts, fallback_attempt.attempt)
                     /\ IF fallback_attempt.attempt.result # None
                        THEN RetrieveReturn(The(fallback_attempt.attempt.result))
                        ELSE RetrieveReturn(
                                 RetrievalResult(<<>>, None, FALSE,
                                     Some(RetrievalError("both_failed",
                                                         query_attempt.error_type,
                                                         fallback_attempt.attempt.error_type))))

\* The search attempt answers.
FallbackAttemptDone ==
    /\ UNCHANGED <<p_vars, b_vars, s_vars, n_vars>>
    /\ r_pc = "await_search"
    /\ \E outcome \in RunnerOutcomes :
         LET fallback_attempt == _attempt("search", outcome)
             query_attempt == r_attempts[1]
         IN  /\ UNCHANGED <<r_input, r_calls>>
             /\ IF fallback_attempt.exc # None
                THEN /\ RetrieveRaise(fallback_attempt.exc)
                     /\ UNCHANGED r_attempts
                ELSE /\ r_attempts' = Append(r_attempts, fallback_attempt.attempt)
                     /\ IF fallback_attempt.attempt.result # None
                        THEN RetrieveReturn(The(fallback_attempt.attempt.result))
                        ELSE RetrieveReturn(
                                 RetrievalResult(<<>>, None, TRUE,
                                     Some(RetrievalError("both_failed",
                                                         query_attempt.error_type,
                                                         fallback_attempt.attempt.error_type))))

\* A retrieve call at position pc, its arguments drawn from inputs.
RetrieveAt(pc, inputs) ==
    /\ r_pc = pc
    /\ r_input \in inputs
    /\ r_calls = <<>>
    /\ r_attempts = <<>>
    /\ r_result = None
    /\ r_exc = None

RetrieveInputs == [query : Queries, npc_name : NpcNameArgs, top_k : TopKArgs]

RetrieveNext == RetrieveStart \/ QueryAttemptDone \/ FallbackAttemptDone

--------------------------------------------------------------------------------------------------------------------------------------------------------------------------------------------------------------------------
(* prompt/builder.py                                                        *)
(*                                                                          *)
(* A text is the sequence of its whitespace-delimited tokens; a token       *)
(* records the section (and line) it belongs to.  Whitespace between tokens *)
(* is not kept: every text below is put together with "\n", "\n\n" or " "   *)
(* between its parts, so concatenation of texts is concatenation of tokens. *)

Tok(sec, line) == [sec |-> sec, line |-> line]
Toks(sec, line, n) == [k \in 1..n |-> Tok(sec, line)]

\* estimate_tokens: the number of \S+ matches.
estimate_tokens(text) == Len(text)

\* Token counts of the literals of build.
SystemFixedLiteralTokens == 10
SkillLabelTokens == 3
MemoryHeaderTokens == 2
MemoryNoneTokens == 2
HistoryNoneTokens == 3
UserPrefixTokens == 2
UserSuffixTokens == 13
MemoryLineMetaTokens == 3

user_prefix == Toks("user_prefix", 0, UserPrefixTokens)
user_suffix == Toks("user_suffix", 0, UserSuffixTokens)

\* A card gives the word counts of its fields; an empty inventory prints "(none)".
_build_system_fixed(card) ==
    Toks("fixed", 0,
         SystemFixedLiteralTokens + card.name + card.description + card.personality
           + card.background + card.stats
           + (IF card.inventory > 0 THEN card.inventory ELSE 1))

\* "- {text} (source=.., score=.., mode=..)" for the i-th memory.
MemoryLine(i, item) == Toks("memory", i, 1 + Len(item.text) + MemoryLineMetaTokens)

\* "[{role}][{author_name}] {content}" for the i-th message.
HistoryLine(i, item) == Toks("history", i, 1 + Len(item.content))

RECURSIVE Flatten(_)
Flatten(lines) == IF lines = <<>> THEN <<>> ELSE Head(lines) \o Flatten(Tail(lines))

Max(a, b) == IF a >= b THEN a ELSE b

\* The loop of _select_lines_with_budget: the lines taken from the front.
RECURSIVE SelectLoop(_, _, _)
SelectLoop(lines, remaining, selected) ==
    IF lines = <<>> THEN selected
    ELSE LET cost == estimate_tokens(Head(lines))
         IN  IF cost <= remaining
             THEN SelectLoop(Tail(lines), remaining - cost, Append(selected, Head(lines)))
             ELSE selected

\* Mutant: a line that does not fit is skipped and the loop goes on.
RECURSIVE SelectLoop_SkipsUnfit(_, _, _)
SelectLoop_SkipsUnfit(lines, remaining, selected) ==
    IF lines = <<>> THEN selected
    ELSE LET cost == estimate_tokens(Head(lines))
         IN  IF cost <= remaining
             THEN SelectLoop_SkipsUnfit(Tail(lines), remaining - cost,
                                        Append(selected, Head(lines)))
             ELSE SelectLoop_SkipsUnfit(Tail(lines), remaining, selected)

_select_lines_with_budget_SkipsUnfit(lines, budget) ==
    LET selected == SelectLoop_SkipsUnfit(lines, budget, <<>>)
    IN  [selected |-> selected, truncated |-> Len(selected) < Len(lines)]

\* Mutant: a cut memory list is not reported.
_select_lines_with_budget_NoFlag(lines, budget) ==
    [selected |-> SelectLoop(lines, budget, <<>>), truncated |-> FALSE]

_select_lines_with_budget(lines, budget) ==
    LET selected == SelectLoop(lines, budget, <<>>)
    IN  [selected |-> selected, truncated |-> Len(selected) < Len(lines)]

\* The loop of _select_lines_from_tail_with_budget over reversed(lines).
RECURSIVE TailLoop(_, _, _)
TailLoop(lines, remaining, selected_reversed) ==
    IF lines = <<>> THEN selected_reversed
    ELSE LET line == lines[Len(lines)]
             cost == estimate_tokens(line)
         IN  IF cost <= remaining
             THEN TailLoop(SubSeq(lines, 1, Len(lines) - 1), remaining - cost,
                           Append(selected_reversed, line))
             ELSE selected_reversed

Reversed(seq) == [k \in 1..Len(seq) |-> seq[Len(seq) + 1 - k]]

\* Mutant: the lines taken from the tail are left in the order they were taken.
_select_lines_from_tail_with_budget_NotReversed(lines, budget) ==
    LET selected == TailLoop(lines, budget, <<>>)
    IN  [selected |-> selected, truncated |-> Len(selected) < Len(lines)]

_select_lines_from_tail_with_budget(lines, budget) ==
    LET selected == Reversed(TailLoop(lines, budget, <<>>))
    IN  [selected |-> selected, truncated |-> Len(selected) < Len(lines)]

\* The loop of _truncate_to_token_budget over text.split().
RECURSIVE TruncateLoop(_, _, _)
TruncateLoop(words, budget, selected) ==
    IF words = <<>> THEN selected
    ELSE IF estimate_tokens(Append(selected, Head(words))) > budget THEN selected
    ELSE TruncateLoop(Tail(words), budget, Append(selected, Head(words)))

_truncate_to_token_budget(text, budget) ==
    IF budget <= 0 THEN <<>>
    ELSE IF estimate_tokens(text) <= budget THEN text
    ELSE TruncateLoop(text, budget, <<>>)

PromptBuildResult(system_prompt, user_prompt, estimated_input_tokens, included_memory_count, included_history_count, was_truncated) ==
    [system_prompt |-> system_prompt, user_prompt |-> user_prompt,
     estimated_input_tokens |-> estimated_input_tokens,
     included_memory_count |-> included_memory_count,
     included_history_count |-> included_history_count,
     was_truncated |-> was_truncated]

\* The skill section of build: [section, budget_remaining, was_truncated].
\* skill_rules_excerpt is the stripped excerpt, <<>> when it is blank.
SkillSection(skill_rules_excerpt, budget_remaining, was_truncated) ==
    IF skill_rules_excerpt # <<>> /\ budget_remaining > 0
    THEN LET label == Toks("skill_label", 0, SkillLabelTokens)
             excerpt_budget == Max(budget_remaining - estimate_tokens(label), 0)
             excerpt == _truncate_to_token_budget(skill_rules_excerpt, excerpt_budget)
         IN  IF excerpt # <<>>
             THEN [section |-> label \o excerpt,
                   budget_remaining |->
                       Max(budget_remaining - estimate_tokens(label \o excerpt), 0),
                   was_truncated |-> was_truncated \/ excerpt # skill_rules_excerpt]
             ELSE [section |-> <<>>, budget_remaining |-> budget_remaining,
                   was_truncated |-> TRUE]
    ELSE [section |-> <<>>, budget_remaining |-> budget_remaining,
          was_truncated |-> was_truncated]

\* Mutant: the clamp trims the system prompt only.
FinalClamp_SystemPassOnly(token_budget, system_prompt, user_prompt, was_truncated) ==
    LET total_tokens == estimate_tokens(system_prompt) + estimate_tokens(user_prompt)
        system1 == IF total_tokens > token_budget
                   THEN _truncate_to_token_budget(system_prompt,
                            Max(token_budget - estimate_tokens(user_prompt), 0))
                   ELSE system_prompt
    IN  [system_prompt |-> system1, user_prompt |-> user_prompt,
         total_tokens |-> estimate_tokens(system1) + estimate_tokens(user_prompt),
         was_truncated |-> was_truncated \/ total_tokens > token_budget]

\* The final clamp of build on the assembled prompts.
FinalClamp(token_budget, system_prompt, user_prompt, was_truncated) ==
    LET total_tokens == estimate_tokens(system_prompt) + estimate_tokens(user_prompt)
    IN  IF total_tokens > token_budget
        THEN LET allowed_system_tokens == Max(token_budget - estimate_tokens(user_prompt), 0)
                 system1 == _truncate_to_token_budget(system_prompt, allowed_system_tokens)
                 total1 == estimate_tokens(system1) + estimate_tokens(user_prompt)
                 allowed_user_tokens == Max(token_budget - estimate_tokens(system1), 0)
                 user1 == IF total1 > token_budget
                          THEN _truncate_to_token_budget(user_prompt, allowed_user_tokens)
                          ELSE user_prompt
             IN  [system_prompt |-> system1, user_prompt |-> user1,
                  total_tokens |-> estimate_tokens(system1) + estimate_tokens(user1),
                  was_truncated |-> TRUE]
        ELSE [system_prompt |-> system_prompt, user_prompt |-> user_prompt,
              total_tokens |-> total_tokens, was_truncated |-> was_truncated]

build(token_budget, character_card, skill_rules_excerpt, memories, recent_messages) ==
    LET system_fixed == _build_system_fixed(character_card)
        used_tokens == estimate_tokens(system_fixed) + estimate_tokens(user_prefix)
                         + estimate_tokens(user_suffix)
        budget0 == Max(token_budget - used_tokens, 0)
        skill == SkillSection(skill_rules_excerpt, budget0, used_tokens > token_budget)
        memory_lines == [i \in 1..Len(memories) |-> MemoryLine(i, memories[i])]
        mem == _select_lines_with_budget(memory_lines, skill.budget_remaining)
        memory_block ==
            IF mem.selected # <<>>
            THEN Toks("memory_header", 0, MemoryHeaderTokens) \o Flatten(mem.selected)
            ELSE Toks("memory_header", 0, MemoryHeaderTokens)
                   \o Toks("memory_none", 0, MemoryNoneTokens)
        budget2 == IF mem.selected # <<>>
                   THEN Max(skill.budget_remaining - estimate_tokens(memory_block), 0)
                   ELSE skill.budget_remaining
        history_lines == [i \in 1..Len(recent_messages) |-> HistoryLine(i, recent_messages[i])]
        hist == _select_lines_from_tail_with_budget(history_lines, budget2)
        history_block == IF hist.selected # <<>> THEN Flatten(hist.selected)
                         ELSE Toks("history_none", 0, HistoryNoneTokens)
        clamp == FinalClamp(token_budget,
                            system_fixed \o skill.section \o memory_block,
                            user_prefix \o history_block \o user_suffix,
                            skill.was_truncated \/ mem.truncated \/ hist.truncated)
    IN  PromptBuildResult(clamp.system_prompt, clamp.user_prompt, clamp.total_tokens,
                          Len(mem.selected), Len(hist.selected),
                          clamp.was_truncated \/ clamp.total_tokens > token_budget)

\* Bounds of the builder's inputs
MaxBudget == 46
MaxExcerptWords == 3
MaxMemories == 2
MaxHistory == 3
MaxLineWords == 2

Words(n) == [k \in 1..n |-> "w"]
Card == [name |-> 1, description |-> 1, personality |-> 1, background |-> 1,
         stats |-> 1, inventory |-> 0]
BuildInputs ==
    [budget : 1..MaxBudget,
     card : {Card},
     excerpt : {Toks("skill", 0, n) : n \in 0..MaxExcerptWords},
     memories : SeqsUpTo({[text |-> Words(n)] : n \in {1, MaxLineWords}}, MaxMemories),
     history : SeqsUpTo({[content |-> Words(n)] : n \in {0, MaxLineWords}}, MaxHistory)]

\* PromptBuilder.build, called once on the input.
Build ==
    /\ UNCHANGED <<r_vars, p_vars, s_vars, n_vars>>
    /\ b_pc = "start"
    /\ b_pc' = "built"
    /\ b_result' = Some(build(The(b_input).budget, The(b_input).card, The(b_input).excerpt,
                              The(b_input).memories, The(b_input).history))
    /\ UNCHANGED b_input

----------------------------------------------------------------------------
(* discord/recent_messages.py: RecentMessageCollector.collect               *)

\* tuple(sorted(set(ids))): the distinct ids, ascending.
RECURSIVE SortedTuple(_)
SortedTuple(ids) ==
    IF ids = {} THEN <<>>
    ELSE LET least == CHOOSE i \in ids : \A j \in ids : i <= j
         IN  <<least>> \o SortedTuple(ids \ {least})

RecentMessage(message) ==
    [message_id |-> message.message_id,
     role |-> IF message.author_is_bot THEN "assistant" ELSE "user",
     content |-> message.content,
     created_at |-> message.created_at,
     mentioned_user_ids |-> SortedTuple({message.mentioned_user_ids[i] : i \in 1..Len(message.mentioned_user_ids)})]

Before(a, b) ==
    \/ a.created_at < b.created_at
    \/ a.created_at = b.created_at /\ a.message_id <= b.message_id

\* sorted(raw_messages, key=(created_at, message_id)): insertion of each
\* message after the last one that is not later than it (a stable sort).
RECURSIVE Insert(_, _)
Insert(ordered, m) ==
    IF ordered = <<>> THEN <<m>>
    ELSE IF Before(ordered[Len(ordered)], m) THEN Append(ordered, m)
    ELSE Append(Insert(SubSeq(ordered, 1, Len(ordered) - 1), m), ordered[Len(ordered)])

RECURSIVE Sorted(_)
Sorted(raw_messages) ==
    IF raw_messages = <<>> THEN <<>>
    ELSE Insert(Sorted(SubSeq(raw_messages, 1, Len(raw_messages) - 1)),
                raw_messages[Len(raw_messages)])

\* Mutant: the window is the head of the ordered messages.
collect_HeadWindow(raw_messages, effective_limit) ==
    LET ordered == Sorted(raw_messages)
        window == SubSeq(ordered, 1, IF effective_limit < Len(ordered) THEN effective_limit ELSE Len(ordered))
    IN  [k \in 1..Len(window) |-> RecentMessage(window[k])]

\* collect after the provider has answered: sort, tail window, normalise.
collect(raw_messages, effective_limit) ==
    LET ordered == Sorted(raw_messages)
        window == SubSeq(ordered, Max(Len(ordered) - effective_limit, 0) + 1, Len(ordered))
    IN  [k \in 1..Len(window) |-> RecentMessage(window[k])]

----------------------------------------------------------------------------
(* pipeline/response_pipeline.py: ResponsePipeline.on_message               *)

pipeline_token_budget == 2000
history_limit == 25
SceneQueryTail == 5

PipelineOutcome(handled, sent, retrieval_mode, retrieval_error_type, prompt_tokens, error_type) ==
    [handled |-> handled, sent |-> sent, retrieval_mode |-> retrieval_mode,
     retrieval_error_type |-> retrieval_error_type, prompt_tokens |-> prompt_tokens,
     error_type |-> error_type]

\* The listener's decision (the trigger router of the pipeline): target
\* channel, human author other than the persona, persona mentioned; false
\* while the persona's identity is unknown.
should_respond(listener, message) ==
    /\ listener.bot_user_id # None
    /\ message.channel_id = listener.target_channel_id
    /\ ~message.author_is_bot
    /\ message.author_id # The(listener.bot_user_id)
    /\ The(listener.bot_user_id) \in message.mentioned_user_ids

\* _default_scene_query_builder: the non-empty contents of the last five
\* messages, joined; the fixed phrase when there are none.  The contents of
\* the model are far shorter than the cap of 280 characters.
_default_scene_query_builder(recent_messages) ==
    LET selected == SubSeq(recent_messages,
                           Max(Len(recent_messages) - SceneQueryTail, 0) + 1,
                           Len(recent_messages))
        parts == SelectSeq([k \in 1..Len(selected) |-> selected[k].content],
                           LAMBDA c : c # <<>>)
    IN  IF parts = <<>> THEN <<"recent ttrpg conversation context">> ELSE parts

\* The exceptions of the model, by the except clause that catches them.
IsLlmClientError(exc) == exc = "LlmClientError"
IsSkillExcerptError(exc) == exc = "SkillExcerptError"

\* What each awaited or called collaborator can answer: [exc, value]; value
\* is what it returns, and a placeholder of the same type when it raises.
Raises(exc, placeholder) == [exc |-> Some(exc), value |-> placeholder]
Returns(value) == [exc |-> None, value |-> value]

LlmResponse(text, model, input_tokens, output_tokens) ==
    [text |-> text, model |-> model, input_tokens |-> input_tokens,
     output_tokens |-> output_tokens]

SourceMessage(message_id, created_at, author_is_bot, content) ==
    [message_id |-> message_id, created_at |-> created_at,
     author_is_bot |-> author_is_bot, content |-> content, mentioned_user_ids |-> <<>>]

HistoryOutcomes ==
    { Raises("RuntimeError", <<>>),
      Returns(<<>>),
      Returns(<<SourceMessage(1, 10, FALSE, <<"w">>)>>),
      Returns(<<SourceMessage(2, 11, TRUE, <<>>), SourceMessage(1, 10, FALSE, <<"w">>)>>) }

RetrieverOutcomes ==
    { Raises("OverflowError", RetrievalResult(<<>>, None, FALSE, None)),
      Returns(RetrievalResult(<<MemoryRecord("doc", "unknown", 0, "query")>>,
                              Some("query"), FALSE, None)),
      Returns(RetrievalResult(<<>>, Some("query"), FALSE, None)),
      Returns(RetrievalResult(<<MemoryRecord("fallback-memory", "MEMORY.md", 4, "search")>>,
                              Some("search"), TRUE, None)),
      Returns(RetrievalResult(<<>>, None, TRUE,
                  Some(RetrievalError("both_failed", Some("timeout"), Some("parse_error"))))),
      Returns(RetrievalResult(<<>>, None, FALSE,
                  Some(RetrievalError("invalid_query", None, None)))),
      \* a MemoryRetriever other than QmdAdapter may return records with an error
      Returns(RetrievalResult(<<MemoryRecord("doc", "unknown", 0, "query")>>, None, FALSE,
                  Some(RetrievalError("spawn_error", None, None)))) }

SkillLoadOutcomes ==
    { Raises("SkillExcerptError", <<>>), Raises("PermissionError", <<>>),
      Returns(Toks("skill", 0, 2)) }

CompletionOutcomes ==
    { Raises("LlmClientError", LlmResponse("", "", 0, 0)),
      Raises("TimeoutError", LlmResponse("", "", 0, 0)),
      Returns(LlmResponse("reply", "claude", 100, 20)) }

FormatOutcomes == { Raises("ValueError", ""), Returns("**Kovach:** reply") }
SendOutcomes == { Raises("HTTPException", <<>>), Returns(<<>>) }
ScheduleOutcomes == { Raises("RuntimeError", <<>>), Returns(<<>>) }

Call(op, arg) == [op |-> op, arg |-> arg]
Answer(op, outcome) == [op |-> op, exc |-> outcome.exc]

OnMessageReturn(outcome) ==
    /\ p_pc' = "done"
    /\ p_outcome' = Some(outcome)
    /\ p_exc' = None

OnMessageRaise(exc) ==
    /\ p_pc' = "raised"
    /\ p_outcome' = None
    /\ p_exc' = exc

\* Mutant: the trigger check is skipped.
Triggered_Always(args) == TRUE

\* The trigger check of on_message.
Triggered(args) == should_respond(args.listener, args.message)

\* on_message up to its first await: the trigger check, then collect asks
\* the history provider.
OnMessageStart ==
    /\ UNCHANGED <<r_vars, b_vars, s_vars, n_vars>>
    /\ p_pc = "start"
    /\ UNCHANGED <<p_args, p_recent, p_retrieval, p_excerpt, p_prompt, p_response,
                   p_answers, x_task>>
    /\ IF ~Triggered(The(p_args))
       THEN /\ OnMessageReturn(PipelineOutcome(FALSE, FALSE, None, None, 0, None))
            /\ UNCHANGED p_calls
       ELSE /\ p_calls' = Append(p_calls, Call("get_recent_messages", history_limit))
            /\ p_pc' = "await_history"
            /\ UNCHANGED <<p_outcome, p_exc>>

\* The history provider answers; on success the retriever is asked.
HistoryCollected ==
    /\ UNCHANGED <<r_vars, b_vars, s_vars, n_vars>>
    /\ p_pc = "await_history"
    /\ UNCHANGED <<p_args, p_retrieval, p_excerpt, p_prompt, p_response, x_task>>
    /\ \E history \in HistoryOutcomes :
         /\ p_answers' = Append(p_answers, Answer("get_recent_messages", history))
         /\ IF history.exc # None
            THEN /\ OnMessageReturn(PipelineOutcome(TRUE, FALSE, None, None, 0, history.exc))
                 /\ UNCHANGED <<p_recent, p_calls>>
            ELSE LET recent_messages == collect(history.value, history_limit)
                 IN  /\ p_recent' = recent_messages
                     /\ p_calls' = Append(p_calls,
                            Call("retrieve",
                                 [query |-> _default_scene_query_builder(recent_messages),
                                  npc_name |-> StrOr(The(p_args).memory_namespace,
                                                     The(p_args).npc_name)]))
                     /\ p_pc' = "await_retrieval"
                     /\ UNCHANGED <<p_outcome, p_exc>>

\* Mutant: the records of a failed retrieval are used.
MemoriesOf_IgnoresError(retrieval) == retrieval.records

\* The memories on_message uses and the error kind it reports.
MemoriesOf(retrieval) == IF retrieval.error = None THEN retrieval.records ELSE <<>>
ErrorTypeOf(retrieval) == IF retrieval.error # None THEN Some(The(retrieval.error).type) ELSE None

\* The retriever answers; the excerpt is resolved, the prompt built and the
\* LLM asked, without suspension in between.
MemoryRetrieved ==
    /\ UNCHANGED <<r_vars, b_vars, s_vars, n_vars>>
    /\ p_pc = "await_retrieval"
    /\ UNCHANGED <<p_args, p_recent, p_response, x_task>>
    /\ \E retrieved \in RetrieverOutcomes, loaded \in SkillLoadOutcomes :
         LET load == The(p_args).skill_rules_excerpt = <<>> /\ The(p_args).skill_ruleset # None
             answers1 == Append(p_answers, Answer("retrieve", retrieved))
             answers2 == IF load THEN Append(answers1, Answer("load_skill_excerpt", loaded))
                         ELSE answers1
             calls1 == IF load THEN Append(p_calls, Call("load_skill_excerpt",
                                                         The(The(p_args).skill_ruleset)))
                       ELSE p_calls
             excerpt == IF ~load THEN The(p_args).skill_rules_excerpt
                        ELSE IF loaded.exc = None THEN loaded.value ELSE <<>>
             memories == MemoriesOf(retrieved.value)
             prompt == build(pipeline_token_budget, The(p_args).character_card, excerpt,
                             [k \in 1..Len(memories) |-> [text |-> <<memories[k].text>>]],
                             p_recent)
         IN  IF retrieved.exc # None
             THEN /\ OnMessageRaise(retrieved.exc)
                  /\ p_answers' = answers1
                  /\ UNCHANGED <<p_retrieval, p_excerpt, p_prompt, p_calls>>
             ELSE IF load /\ loaded.exc # None /\ ~IsSkillExcerptError(The(loaded.exc))
             THEN /\ OnMessageRaise(loaded.exc)
                  /\ p_retrieval' = Some(retrieved.value)
                  /\ p_calls' = calls1
                  /\ p_answers' = answers2
                  /\ UNCHANGED <<p_excerpt, p_prompt>>
             ELSE /\ p_retrieval' = Some(retrieved.value)
                  /\ p_excerpt' = excerpt
                  /\ p_prompt' = Some(prompt)
                  /\ p_calls' = calls1 \o <<Call("build", [memories |-> memories]),
                                           Call("complete", prompt.estimated_input_tokens)>>
                  /\ p_answers' = Append(answers2, Answer("build", Returns(prompt)))
                  /\ p_pc' = "await_completion"
                  /\ UNCHANGED <<p_outcome, p_exc>>

\* Mutant: a terminal failure is reported as a message that was not handled.
FailedOutcome_Unhandled(exc) ==
    PipelineOutcome(FALSE, FALSE, The(p_retrieval).mode, ErrorTypeOf(The(p_retrieval)),
                    The(p_prompt).estimated_input_tokens, exc)

\* Mutant: the failure kind is not reported.
FailedOutcome_NoErrorType(exc) ==
    PipelineOutcome(TRUE, FALSE, The(p_retrieval).mode, ErrorTypeOf(The(p_retrieval)),
                    The(p_prompt).estimated_input_tokens, None)

\* The outcome of a terminal failure after the prompt was built.
FailedOutcome(exc) ==
    PipelineOutcome(TRUE, FALSE, The(p_retrieval).mode, ErrorTypeOf(The(p_retrieval)),
                    The(p_prompt).estimated_input_tokens, exc)

\* The LLM answers; on success the reply is formatted and handed to the sender.
CompletionDone ==
    /\ UNCHANGED <<r_vars, b_vars, s_vars, n_vars>>
    /\ p_pc = "await_completion"
    /\ UNCHANGED <<p_args, p_recent, p_retrieval, p_excerpt, p_prompt, x_task>>
    /\ \E completion \in CompletionOutcomes, formatted \in FormatOutcomes :
         IF completion.exc # None
         THEN /\ UNCHANGED <<p_response, p_calls>>
              /\ p_answers' = Append(p_answers, Answer("complete", completion))
              /\ IF IsLlmClientError(The(completion.exc))
                 THEN OnMessageReturn(FailedOutcome(completion.exc))
                 ELSE OnMessageRaise(completion.exc)
         ELSE /\ p_response' = Some(completion.value)
              /\ p_answers' = p_answers \o <<Answer("complete", completion),
                                               Answer("format_reply", formatted)>>
              /\ IF formatted.exc # None
                 THEN /\ p_calls' = Append(p_calls, Call("format_reply", completion.value.text))
                      /\ OnMessageReturn(FailedOutcome(formatted.exc))
                 ELSE /\ p_calls' = p_calls \o <<Call("format_reply", completion.value.text),
                                                 Call("send_message", formatted.value)>>
                      /\ p_pc' = "await_send"
                      /\ UNCHANGED <<p_outcome, p_exc>>

\* Mutant: a failure to schedule the extraction is reported as a failed reply.
SentOutcome_FailsWithSchedule(scheduled) ==
    PipelineOutcome(TRUE, scheduled.exc = None, The(p_retrieval).mode,
                    ErrorTypeOf(The(p_retrieval)),
                    The(p_prompt).estimated_input_tokens, scheduled.exc)

\* The outcome after a successful send, whatever scheduling answered.
SentOutcome(scheduled) ==
    PipelineOutcome(TRUE, TRUE, The(p_retrieval).mode, ErrorTypeOf(The(p_retrieval)),
                    The(p_prompt).estimated_input_tokens, None)

\* Mutant: the extraction is scheduled whether or not the send succeeded.
SendDone_SchedulesRegardless ==
    /\ UNCHANGED <<r_vars, b_vars, s_vars, n_vars>>
    /\ p_pc = "await_send"
    /\ UNCHANGED <<p_args, p_recent, p_retrieval, p_excerpt, p_prompt, p_response>>
    /\ \E sent \in SendOutcomes, scheduled \in ScheduleOutcomes :
         /\ p_calls' = Append(p_calls, Call("schedule_extraction", <<>>))
         /\ p_answers' = p_answers \o <<Answer("send_message", sent),
                                          Answer("schedule_extraction", scheduled)>>
         /\ x_task' = IF scheduled.exc = None THEN "pending" ELSE "none"
         /\ IF sent.exc # None
            THEN OnMessageReturn(FailedOutcome(sent.exc))
            ELSE OnMessageReturn(SentOutcome(scheduled))

\* The sender answers; on success the extraction is scheduled and the Sent
\* outcome returned, without suspension in between.
SendDone ==
    /\ UNCHANGED <<r_vars, b_vars, s_vars, n_vars>>
    /\ p_pc = "await_send"
    /\ UNCHANGED <<p_args, p_recent, p_retrieval, p_excerpt, p_prompt, p_response>>
    /\ \E sent \in SendOutcomes, scheduled \in ScheduleOutcomes :
         IF sent.exc # None
         THEN /\ OnMessageReturn(FailedOutcome(sent.exc))
              /\ p_answers' = Append(p_answers, Answer("send_message", sent))
              /\ UNCHANGED <<p_calls, x_task>>
         ELSE /\ IF The(p_args).has_extractor
                 THEN /\ p_calls' = Append(p_calls,
                             Call("schedule_extraction",
                                  [npc_name |-> StrOr(The(p_args).npc_name,
                                                      Some(The(p_args).character_card_name)),
                                   memory_namespace |-> The(p_args).memory_namespace]))
                      /\ p_answers' = p_answers \o <<Answer("send_message", sent),
                                                       Answer("schedule_extraction", scheduled)>>
                      /\ x_task' = IF scheduled.exc = None THEN "pending" ELSE "none"
                 ELSE /\ p_answers' = Append(p_answers, Answer("send_message", sent))
                      /\ UNCHANGED <<p_calls, x_task>>
              /\ OnMessageReturn(SentOutcome(scheduled))

\* The detached extraction task runs to its end, whenever the loop gets to it.
ExtractionTaskRun ==
    /\ UNCHANGED <<r_vars, b_vars, s_vars, n_vars>>
    /\ x_task = "pending"
    /\ x_task' \in {"done", "failed"}
    /\ UNCHANGED <<p_pc, p_args, p_recent, p_retrieval, p_excerpt, p_prompt, p_response,
                   p_calls, p_answers, p_outcome, p_exc>>

Messages ==
    [channel_id : {200, 201}, author_id : {100, 999}, author_is_bot : BOOLEAN,
     mentioned_user_ids : {{}, {999}}]
Listeners == [target_channel_id : {200}, bot_user_id : {None, Some(999)}]
PipelineArgs ==
    [message : Messages, listener : Listeners, character_card : {Card},
     character_card_name : {<<"k">>},
     skill_rules_excerpt : {<<>>, Toks("skill", 0, 1)},
     skill_ruleset : {None, Some("coc7e")},
     npc_name : {None}, memory_namespace : {None},
     has_extractor : BOOLEAN]

PipelineNext ==
    \/ OnMessageStart
    \/ HistoryCollected
    \/ MemoryRetrieved
    \/ CompletionDone
    \/ SendDone
    \/ ExtractionTaskRun

----------------------------------------------------------------------------
(* memory/scheduler.py: QmdIndexScheduler and _run_command                  *)
(*                                                                          *)
(* A name (namespace, npc_name, ...) is a str read as a path text: parts    *)
(* are its "/"-separated components, padded says that whitespace surrounds  *)
(* it.  A path is the sequence of its components.  No name of the model     *)
(* starts with "/".                                                         *)

update_timeout_seconds == 60
update_interval_seconds == 300
Steps == <<"update", "embed">>

Name(padded, parts) == [padded |-> padded, parts |-> parts]
NameStrip(name) == Name(FALSE, name.parts)
NameIsEmpty(name) == ~name.padded /\ name.parts = <<>>
\* a or b  on Optional[str] a
NameOr(a, b) == IF a # None /\ ~NameIsEmpty(The(a)) THEN The(a) ELSE b

agent_bot_name == Name(FALSE, <<"bot">>)
agent_qmd_index == Name(FALSE, <<"idx">>)

\* pathlib's  path / text : empty and "." components of the text are dropped.
PathJoin(path, parts) == path \o SelectSeq(parts, LAMBDA c : c \notin {"", "."})

\* AppSettings.namespace_root for a namespace that is not blank.
namespace_root(namespace) ==
    LET normalized == NameStrip(namespace)
        base_root == PathJoin(<<data_home, "agents">>, agent_bot_name.parts)
    IN  IF normalized = agent_bot_name THEN base_root
        ELSE PathJoin(base_root, normalized.parts)

\* QmdIndexScheduler._build_env: the two roots handed to the tool.
scheduler_build_env(npc_name) ==
    LET qmd_root == PathJoin(namespace_root(npc_name), <<"qmd">>)
    IN  [XDG_CONFIG_HOME |-> PathJoin(qmd_root, <<"xdg-config">>),
         XDG_CACHE_HOME |-> PathJoin(qmd_root, <<"xdg-cache">>)]

\* QmdAdapter.retrieve: effective_npc_name for the name it is called with.
retrieve_name(npc_name) == NameStrip(NameOr(npc_name, Name(FALSE, settings_npc_name)))

\* QmdAdapter._build_env: data_home / "agents" / npc_name, the directory the
\* retriever's tool directory lies in.
retrieve_agent_root(npc_name) == PathJoin(<<data_home, "agents">>, npc_name.parts)

\* QmdAdapter._build_env over the names of the scheduler: the two roots the
\* retriever hands to the tool.
retrieve_build_env(npc_name) ==
    LET qmd_root == PathJoin(retrieve_agent_root(npc_name), <<"qmd">>)
    IN  [XDG_CONFIG_HOME |-> PathJoin(qmd_root, <<"xdg-config">>),
         XDG_CACHE_HOME |-> PathJoin(qmd_root, <<"xdg-cache">>)]

\* QmdIndexScheduler.__init__: self._namespace.
scheduler_namespace ==
    IF s_input.namespace = None \/ NameStrip(The(s_input.namespace)).parts = <<>> THEN None
    ELSE Some(NameStrip(The(s_input.namespace)))

\* run_once: the name the cycle runs for.
run_once_name ==
    NameStrip(NameOr(scheduler_namespace,
                     NameOr(s_input.npc_name,
                            NameOr(Some(agent_qmd_index), Name(FALSE, settings_npc_name)))))

SchedulerCommandResult(returncode, timed_out) ==
    [returncode |-> returncode, timed_out |-> timed_out]

\* A child process: state is "running", "exited" (it ended by itself),
\* "killed" (kill was delivered) or "reaped" (killed and drained); the flags
\* record what _run_command did with it and result what it returned for it.
Process(state, returncode) ==
    [state |-> state, returncode |-> returncode, timed_out |-> FALSE, killed |-> FALSE,
     drained |-> FALSE, result |-> None]

CurrentProcess == c_procs[Len(c_procs)]
SetCurrentProcess(proc) == [c_procs EXCEPT ![Len(c_procs)] = proc]
\* A call of the command runner made by run number run of run_once, and the
\* result the runner gave back (None while it has not, or when it raised).
StepCall(run, args, env, timeout_seconds) == [run |-> run, args |-> args, env |-> env, timeout_seconds |-> timeout_seconds, answer |-> None]
Answered(result) == [s_calls EXCEPT ![Len(s_calls)].answer = Some(result)]
RunOnceCall(stop_at_start, result) == [stop_at_start |-> stop_at_start, result |-> result]

\* Bound on the number of run_once cycles of one run_forever call
MaxCycles == 2

\* run_once calls the command runner for a step; _run_command spawns the
\* child (which may fail) and awaits communicate under the timeout.
StartStep(step, runs, procs, calls) ==
    /\ s_calls' = Append(calls, StepCall(Len(runs), <<qmd_binary, Steps[step]>>,
                                         scheduler_build_env(run_once_name),
                                         update_timeout_seconds))
    /\ s_step' = step
    /\ s_runs' = runs
    /\ \E spawned \in BOOLEAN :
         IF spawned
         THEN /\ c_pc' = "communicate"
              /\ c_procs' = Append(procs, Process("running", 0))
              /\ s_pc' = "await_runner"
              /\ s_exc' = s_exc
         ELSE /\ c_pc' = "idle"
              /\ c_procs' = procs
              /\ s_pc' = "raised"
              /\ s_exc' = Some("FileNotFoundError")

\* run_once returns; run_forever goes on to wait for the stop event.
RunOnceReturns(value, procs, calls) ==
    /\ s_runs' = [s_runs EXCEPT ![Len(s_runs)].result = Some(value)]
    /\ s_pc' = "await_stop"
    /\ c_pc' = "idle"
    /\ c_procs' = procs
    /\ s_calls' = calls
    /\ UNCHANGED <<s_step, s_exc>>

\* The loop of run_once after the runner has returned a result.
RunnerReturns(result, procs) ==
    LET calls == Answered(result)
    IN  IF result.timed_out THEN RunOnceReturns(FALSE, procs, calls)
        ELSE IF result.returncode # 0 THEN RunOnceReturns(FALSE, procs, calls)
        ELSE IF s_step < Len(Steps) THEN StartStep(s_step + 1, s_runs, procs, calls)
        ELSE RunOnceReturns(TRUE, procs, calls)

\* The loop test of run_forever and, when it passes, run_once up to its
\* first await.
LoopIteration ==
    IF s_stop
    THEN /\ s_pc' = "returned"
         /\ UNCHANGED <<s_step, s_calls, s_runs, s_exc, c_pc, c_procs>>
    ELSE IF NameIsEmpty(run_once_name)
    THEN /\ s_runs' = Append(s_runs, RunOnceCall(s_stop, Some(FALSE)))
         /\ s_pc' = "await_stop"
         /\ UNCHANGED <<s_step, s_calls, s_exc, c_pc, c_procs>>
    ELSE StartStep(1, Append(s_runs, RunOnceCall(s_stop, None)), c_procs, s_calls)

RunForeverStart ==
    /\ UNCHANGED <<r_vars, p_vars, b_vars, n_vars>>
    /\ s_pc = "start"
    /\ LoopIteration
    /\ UNCHANGED <<s_input, s_stop>>

\* The child ends by itself, with exit code 0 or 1.
ProcessExits ==
    /\ UNCHANGED <<r_vars, p_vars, b_vars, n_vars>>
    /\ c_pc = "communicate"
    /\ CurrentProcess.state = "running"
    /\ \E returncode \in {0, 1} :
         c_procs' = SetCurrentProcess([CurrentProcess EXCEPT !.state = "exited",
                                                             !.returncode = returncode])
    /\ UNCHANGED <<s_pc, s_input, s_stop, s_step, s_calls, s_runs, s_exc, c_pc>>

\* communicate completes within the timeout: _run_command returns the exit code.
CommunicateDone ==
    /\ UNCHANGED <<r_vars, p_vars, b_vars, n_vars>>
    /\ c_pc = "communicate"
    /\ CurrentProcess.state = "exited"
    /\ LET result == SchedulerCommandResult(CurrentProcess.returncode, FALSE)
       IN  RunnerReturns(result,
                         SetCurrentProcess([CurrentProcess EXCEPT !.result = Some(result)]))
    /\ UNCHANGED <<s_input, s_stop>>

\* wait_for raises TimeoutError and the handler calls process.kill().  The
\* child may have ended just before: kill then does nothing, or, when the
\* transport is already closed, raises ProcessLookupError.
TimeoutFires ==
    /\ UNCHANGED <<r_vars, p_vars, b_vars, n_vars>>
    /\ c_pc = "communicate"
    /\ UNCHANGED <<s_input, s_stop>>
    /\ IF CurrentProcess.state = "running"
       THEN /\ c_procs' = SetCurrentProcess([CurrentProcess EXCEPT !.state = "killed",
                                                                   !.timed_out = TRUE,
                                                                   !.killed = TRUE])
            /\ c_pc' = "drain"
            /\ UNCHANGED <<s_pc, s_step, s_calls, s_runs, s_exc>>
       ELSE \E closed \in BOOLEAN :
              IF closed
              THEN /\ c_procs' = SetCurrentProcess([CurrentProcess EXCEPT !.timed_out = TRUE])
                   /\ c_pc' = "idle"
                   /\ s_pc' = "raised"
                   /\ s_exc' = Some("ProcessLookupError")
                   /\ UNCHANGED <<s_step, s_calls, s_runs>>
              ELSE /\ c_procs' = SetCurrentProcess([CurrentProcess EXCEPT !.timed_out = TRUE,
                                                                          !.killed = TRUE])
                   /\ c_pc' = "drain"
                   /\ UNCHANGED <<s_pc, s_step, s_calls, s_runs, s_exc>>

\* The second communicate completes: the output is drained and _run_command
\* returns the timeout result.
DrainDone ==
    /\ UNCHANGED <<r_vars, p_vars, b_vars, n_vars>>
    /\ c_pc = "drain"
    /\ LET result == SchedulerCommandResult(-1, TRUE)
           state == IF CurrentProcess.state = "killed" THEN "reaped" ELSE CurrentProcess.state
       IN  RunnerReturns(result,
                         SetCurrentProcess([CurrentProcess EXCEPT !.state = state,
                                                                  !.drained = TRUE,
                                                                  !.result = Some(result)]))
    /\ UNCHANGED <<s_input, s_stop>>

\* Mutant: the wait is a plain sleep, which a set stop event does not end.
StopWaitDone_Sleeps == FALSE

\* stop_event.wait() completes as soon as the event is set.
StopWaitDone == s_stop

\* The wait ends because the stop event is set.
StopObserved ==
    /\ UNCHANGED <<r_vars, p_vars, b_vars, n_vars>>
    /\ s_pc = "await_stop"
    /\ StopWaitDone
    /\ LoopIteration
    /\ UNCHANGED <<s_input, s_stop>>

\* The wait ends because the interval has elapsed.
IntervalElapsed ==
    /\ UNCHANGED <<r_vars, p_vars, b_vars, n_vars>>
    /\ s_pc = "await_stop"
    /\ Len(s_runs) < MaxCycles
    /\ LoopIteration
    /\ UNCHANGED <<s_input, s_stop>>

\* Somebody sets the stop event while run_forever is suspended.
SetStop ==
    /\ UNCHANGED <<r_vars, p_vars, b_vars, n_vars>>
    /\ s_pc \in {"await_runner", "await_stop"}
    /\ ~s_stop
    /\ s_stop' = TRUE
    /\ UNCHANGED <<s_pc, s_input, s_step, s_calls, s_runs, s_exc, c_pc, c_procs>>

\* RuntimeApp.stop: the scheduler task, unless done, is cancelled and then
\* waited for.  CancelledError is raised in the coroutine at the await it is
\* suspended at; nothing between there and the task catches it, so a child
\* process of the step in flight is neither killed nor waited for.  The
\* stop event stays as it is.
RuntimeStop ==
    /\ UNCHANGED <<r_vars, p_vars, b_vars>>
    /\ a_started
    /\ a_started' = FALSE
    /\ IF s_pc \in {"returned", "raised"}
       THEN UNCHANGED <<s_pc, c_pc>>
       ELSE s_pc' = "cancelled" /\ c_pc' = "idle"
    /\ UNCHANGED <<s_input, s_stop, s_step, s_calls, s_runs, s_exc, c_procs>>
    /\ UNCHANGED <<d_vars, h_vars, k_vars, e_vars, m_vars, o_vars>>

SchedulerNamespaces ==
    { None, Some(Name(TRUE, <<>>)), Some(agent_bot_name), Some(Name(TRUE, <<"n1">>)),
      Some(Name(FALSE, <<"qmd">>)), Some(Name(FALSE, <<"n1", ".">>)) }
SchedulerNpcNames == { None, Some(Name(TRUE, <<>>)), Some(Name(FALSE, <<"n1">>)) }
SchedulerInputs == [namespace : SchedulerNamespaces, npc_name : SchedulerNpcNames]

SchedulerNext ==
    \/ RunForeverStart
    \/ ProcessExits
    \/ CommunicateDone
    \/ TimeoutFires
    \/ DrainDone
    \/ StopObserved
    \/ IntervalElapsed
    \/ SetStop

----------------------------------------------------------------------------
(* discord/mention_listener.py: MentionRouter and MentionListener           *)
(*                                                                          *)
(* A message is [author, channel, content, mentions]: author is an          *)
(* Optional user [id, bot] (None for an object without a usable author),    *)
(* mentions the ids of the mentioned users in order, content a sequence of  *)
(* words.  A word is [kind, id]: a raw mention <@id> (kind "plain"), a raw  *)
(* nickname mention <@!id> (kind "nick"), or other text (kind "text").      *)

Word(kind, id) == [kind |-> kind, id |-> id]

\* f"<@{bot_user_id}>" in content, and the same for "<@!...>": a raw mention
\* ends with ">", so it occurs in the content only as a whole word.
InContent(word, content) == \E i \in 1..Len(content) : content[i] = word

\* The outcome of a call: the value returned, or the exception raised.
Returned(value) == [exc |-> None, value |-> value]
RaisedWith(exc) == [exc |-> Some(exc), value |-> FALSE]

_is_bot_mentioned(message, bot_user_id) ==
    \/ \E i \in 1..Len(message.mentions) : message.mentions[i] = bot_user_id
    \/ InContent(Word("plain", bot_user_id), message.content)
    \/ InContent(Word("nick", bot_user_id), message.content)

\* Mutant: an unknown identity is not checked for; the router goes on with
\* the identity it will have.
should_dispatch_NoReadyCheck(config, message, bot_user_id) ==
    IF message.author = None THEN RaisedWith("AttributeError")
    ELSE IF config.ignore_bot_authors /\ The(message.author).bot THEN Returned(FALSE)
    ELSE IF message.channel # config.channel_id THEN Returned(FALSE)
    ELSE Returned(_is_bot_mentioned(message, 999))

\* Mutant: the channel of the message is not looked at.
should_dispatch_AnyChannel(config, message, bot_user_id) ==
    IF bot_user_id = None THEN Returned(FALSE)
    ELSE IF message.author = None THEN RaisedWith("AttributeError")
    ELSE IF config.ignore_bot_authors /\ The(message.author).bot THEN Returned(FALSE)
    ELSE Returned(_is_bot_mentioned(message, The(bot_user_id)))

should_dispatch(config, message, bot_user_id) ==
    IF bot_user_id = None THEN Returned(FALSE)
    ELSE IF message.author = None THEN RaisedWith("AttributeError")
    ELSE IF config.ignore_bot_authors /\ The(message.author).bot THEN Returned(FALSE)
    ELSE IF message.channel # config.channel_id THEN Returned(FALSE)
    ELSE Returned(_is_bot_mentioned(message, The(bot_user_id)))

\* Bound on the number of messages one listener is given
MaxRouted == 1

\* The identity the platform gives the persona when the client has logged in.
client_user_id == 999

RouterAuthors ==
    { None, Some([id |-> 100, bot |-> FALSE]), Some([id |-> 22, bot |-> TRUE]),
      Some([id |-> client_user_id, bot |-> TRUE]) }
RouterContents ==
    { <<>>, <<Word("text", 0)>>, <<Word("text", 0), Word("plain", client_user_id)>>,
      <<Word("nick", client_user_id)>>, <<Word("plain", 99)>> }
RouterMessages ==
    [author : RouterAuthors, channel : {200, 201}, content : RouterContents,
     mentions : {<<>>, <<client_user_id>>, <<17>>}]
RouterConfigs == [channel_id : {200}, ignore_bot_authors : BOOLEAN]

\* The client has logged in: client.user is set from now on.
ClientReady ==
    /\ UNCHANGED <<r_vars, p_vars, b_vars, s_vars, a_vars, h_vars, k_vars, e_vars, m_vars, o_vars>>
    /\ d_bot_user_id = None
    /\ d_bot_user_id' = Some(client_user_id)
    /\ UNCHANGED <<d_config, d_log, d_handled>>

\* MentionListener.handle_message for one message; the mention handler is
\* awaited when the router says so.
HandleMessage ==
    /\ UNCHANGED <<r_vars, p_vars, b_vars, s_vars, a_vars, h_vars, k_vars, e_vars, m_vars, o_vars>>
    /\ Len(d_log) < MaxRouted
    /\ \E message \in RouterMessages :
         LET outcome == should_dispatch(d_config, message, d_bot_user_id)
         IN  /\ d_log' = Append(d_log, [message |-> message,
                                        bot_user_id |-> d_bot_user_id,
                                        outcome |-> outcome])
             /\ d_handled' = IF outcome.exc = None /\ outcome.value
                             THEN Append(d_handled, message)
                             ELSE d_handled
    /\ UNCHANGED <<d_config, d_bot_user_id>>

RouterNext ==
    \/ ClientReady
    \/ HandleMessage

----------------------------------------------------------------------------
(* discord/message_handler.py: DiscordMessageHandler.handle                 *)
(*                                                                          *)
(* The pipeline call of handle is the on_message call of the pipeline       *)
(* model: handle starts it (p_pc from "pending" to "start") and goes on     *)
(* when it is over.  An operation of the sender may raise.                  *)

p_frame == <<p_args, p_recent, p_retrieval, p_excerpt, p_prompt, p_response, p_calls, p_answers, p_outcome, p_exc, x_task>>

\* handle awaits an operation of the sender.
SenderOp(op, pc) ==
    /\ h_ops' = Append(h_ops, op)
    /\ h_pc' = pc
    /\ UNCHANGED <<h_message_id, h_exc, p_pc>>

HandleRaise(exc) ==
    /\ h_pc' = "raised"
    /\ h_exc' = Some(exc)
    /\ UNCHANGED <<h_message_id, h_ops, p_pc>>

\* handle up to its first await: the reaction when the message has an id,
\* the typing indicator otherwise.
HandleStart ==
    /\ UNCHANGED <<r_vars, b_vars, s_vars, a_vars, d_vars, k_vars, e_vars, m_vars, o_vars, p_frame>>
    /\ h_pc = "start"
    /\ IF h_message_id # None
       THEN SenderOp("add_reaction", "await_reaction")
       ELSE SenderOp("start_typing", "await_typing")

ReactionDone ==
    /\ UNCHANGED <<r_vars, b_vars, s_vars, a_vars, d_vars, k_vars, e_vars, m_vars, o_vars, p_frame>>
    /\ h_pc = "await_reaction"
    /\ \E ok \in BOOLEAN :
         IF ok THEN SenderOp("start_typing", "await_typing")
         ELSE HandleRaise("SenderError")

\* The typing indicator is on: handle awaits pipeline.on_message.
TypingStarted ==
    /\ UNCHANGED <<r_vars, b_vars, s_vars, a_vars, d_vars, k_vars, e_vars, m_vars, o_vars, p_frame>>
    /\ h_pc = "await_typing"
    /\ \E ok \in BOOLEAN :
         IF ok
         THEN /\ h_pc' = "await_pipeline"
              /\ p_pc' = "start"
              /\ UNCHANGED <<h_message_id, h_ops, h_exc>>
         ELSE HandleRaise("SenderError")

\* on_message is over, by return or by exception: the finally clause stops
\* the typing indicator.
PipelineOver ==
    /\ UNCHANGED <<r_vars, b_vars, s_vars, a_vars, d_vars, k_vars, e_vars, m_vars, o_vars, p_frame>>
    /\ h_pc = "await_pipeline"
    /\ p_pc \in {"done", "raised"}
    /\ SenderOp("stop_typing", "await_stop_typing")

TypingStopped ==
    /\ UNCHANGED <<r_vars, b_vars, s_vars, a_vars, d_vars, k_vars, e_vars, m_vars, o_vars, p_frame>>
    /\ h_pc = "await_stop_typing"
    /\ \E ok \in BOOLEAN :
         IF ~ok THEN HandleRaise("SenderError")
         ELSE IF p_pc = "raised" THEN HandleRaise(The(p_exc))
         ELSE /\ h_pc' = "returned"
              /\ UNCHANGED <<h_message_id, h_ops, h_exc, p_pc>>

HandlerNext ==
    \/ HandleStart
    \/ ReactionDone
    \/ TypingStarted
    \/ PipelineOver
    \/ TypingStopped
    \/ PipelineNext

----------------------------------------------------------------------------
(* discord/recent_messages.py: RecentMessageCollector.collect as a call     *)

\* Bounds on the messages a provider returns and on the limits asked for
MaxRaw == 3
MaxLimit == 2

effective_limit == IF k_input.limit = None THEN k_input.default_limit ELSE The(k_input.limit)

\* collect up to its await: the limit is validated, the provider asked.
CollectStart ==
    /\ UNCHANGED <<r_vars, p_vars, b_vars, s_vars, a_vars, d_vars, h_vars, e_vars, m_vars, o_vars>>
    /\ k_pc = "start"
    /\ IF effective_limit <= 0
       THEN /\ k_pc' = "raised"
            /\ k_exc' = Some("ValueError")
            /\ UNCHANGED k_calls
       ELSE /\ k_pc' = "await_provider"
            /\ k_calls' = Append(k_calls, effective_limit)
            /\ UNCHANGED k_exc
    /\ UNCHANGED <<k_input, k_result>>

\* The provider answers: its exception leaves collect, its messages are
\* ordered, windowed and normalised.
ProviderAnswered ==
    /\ UNCHANGED <<r_vars, p_vars, b_vars, s_vars, a_vars, d_vars, h_vars, e_vars, m_vars, o_vars>>
    /\ k_pc = "await_provider"
    /\ IF k_input.provider.exc # None
       THEN /\ k_pc' = "raised"
            /\ k_exc' = k_input.provider.exc
            /\ UNCHANGED k_result
       ELSE /\ k_pc' = "returned"
            /\ k_result' = collect(k_input.provider.value, effective_limit)
            /\ UNCHANGED k_exc
    /\ UNCHANGED <<k_input, k_calls>>

RawMessages ==
    { [message_id |-> id, created_at |-> at, author_is_bot |-> who.bot, content |-> <<>>, mentioned_user_ids |-> who.mentions] :
        id \in {1, 2}, at \in {10, 11},
        who \in {[bot |-> FALSE, mentions |-> <<>>], [bot |-> TRUE, mentions |-> <<7, 3, 7>>]} }
CollectorInputs ==
    [default_limit : {MaxLimit},
     limit : {None} \cup {Some(n) : n \in -1..MaxLimit},
     provider : {Raises("RuntimeError", <<>>)} \cup {Returns(raw) : raw \in SeqsUpTo(RawMessages, MaxRaw)}]

CollectorNext ==
    \/ CollectStart
    \/ ProviderAnswered

----------------------------------------------------------------------------
(* memory/extractor.py: MemoryExtractor.extract_and_append                  *)

now == "2026-02-14T12:34"
today == "2026-02-14.md"

\* MemoryExtractor.__init__: the default namespace, stripped, None if blank.
extractor_namespace(namespace) ==
    IF namespace # None /\ ~NameIsEmpty(NameStrip(The(namespace)))
    THEN Some(NameStrip(The(namespace))) ELSE None

\* memory_namespace or self._namespace or npc_name or settings.agent.qmd_index,
\* stripped.
effective_namespace(input) ==
    NameStrip(NameOr(input.memory_namespace,
              NameOr(extractor_namespace(input.namespace),
              NameOr(Some(input.npc_name), agent_qmd_index))))

_daily_memory_path(namespace) ==
    PathJoin(namespace_root(NameStrip(namespace)), <<"memory", "memory", today>>)

\* How the call ends and what it appends.
Extraction(result, written) == [result |-> result, written |-> written]

\* Mutant: an exception of the completion call leaves extract_and_append.
AfterCompletion_Uncaught(input) ==
    IF input.completion.exc # None
    THEN Extraction(RaisedWith(The(input.completion.exc)), <<>>)
    ELSE Extraction(Returned(FALSE), <<>>)

\* extract_and_append from the answer of the completion call to its return:
\* lines 69-108, no suspension in between.
AfterCompletion(input) ==
    LET facts == strip(input.completion.value)
        namespace == effective_namespace(input)
        path == _daily_memory_path(namespace)
        entry == [timestamp |-> now, facts |-> facts]
    IN  IF input.completion.exc # None THEN Extraction(Returned(FALSE), <<>>)
        ELSE IF facts = <<>> THEN Extraction(Returned(FALSE), <<>>)
        ELSE IF NameIsEmpty(namespace) THEN Extraction(Returned(FALSE), <<>>)
        ELSE IF input.files # "ok" THEN Extraction(Returned(FALSE), <<>>)
        ELSE Extraction(Returned(TRUE), <<[path |-> path, entry |-> entry]>>)

\* extract_and_append up to its await: the persona name is checked, the
\* prompt built, the completion requested.
ExtractStart ==
    /\ UNCHANGED <<r_vars, p_vars, b_vars, s_vars, a_vars, d_vars, h_vars, k_vars, m_vars, o_vars>>
    /\ e_pc = "start"
    /\ IF NameIsEmpty(NameStrip(e_input.npc_name))
       THEN /\ e_pc' = "over"
            /\ e_result' = Some(Returned(FALSE))
            /\ UNCHANGED e_calls
       ELSE /\ e_pc' = "await_complete"
            /\ e_calls' = e_calls + 1
            /\ UNCHANGED e_result
    /\ UNCHANGED <<e_input, e_journal>>

\* The completion call is over: facts, namespace, journal entry.
CompletionAnswered ==
    /\ UNCHANGED <<r_vars, p_vars, b_vars, s_vars, a_vars, d_vars, h_vars, k_vars, m_vars, o_vars>>
    /\ e_pc = "await_complete"
    /\ e_pc' = "over"
    /\ e_result' = Some(AfterCompletion(e_input).result)
    /\ e_journal' = e_journal \o AfterCompletion(e_input).written
    /\ UNCHANGED <<e_input, e_calls>>

ExtractorNames == { Name(FALSE, <<>>), Name(TRUE, <<>>), Name(FALSE, <<"kovach">>), Name(TRUE, <<"ns">>), agent_bot_name }
ExtractorTexts == { <<>>, <<" ">>, <<" ", "-", "f", " ">> }
ExtractorInputs ==
    [namespace : {None} \cup {Some(n) : n \in ExtractorNames},
     npc_name : ExtractorNames,
     memory_namespace : {None} \cup {Some(n) : n \in ExtractorNames},
     completion : {Raises("LlmClientError", <<>>), Raises("TimeoutError", <<>>)} \cup {Returns(t) : t \in ExtractorTexts},
     files : {"ok", "mkdir_error", "open_error"}]
IdleExtraction ==
    [namespace |-> None, npc_name |-> agent_bot_name, memory_namespace |-> None,
     completion |-> Returns(<<>>), files |-> "ok"]

ExtractorNext ==
    \/ ExtractStart
    \/ CompletionAnswered

----------------------------------------------------------------------------
(* runtime/factory.py and pipeline/response_pipeline.py: the pipelines of   *)
(* the channels, one on_message invocation each, interleaved at their       *)
(* awaits.  What the channels' pipelines have in common is the identity the *)
(* ready callback writes to every listener; history collector, prompt       *)
(* builder, LLM client and reply formatter are shared objects without       *)
(* fields written after construction.                                       *)

Channels == {200, 201}
ChannelWord(channel) == IF channel = 200 THEN "w200" ELSE "w201"

\* Mutant: every message is answered through the sender of channel 200.
SenderOf_Shared(channel) == 200

\* The sender of an invocation: made for its message, bound to its channel.
SenderOf(channel) == channel

Invocation(pc, seen, recent, retrieval, prompt_tokens, result) ==
    [pc |-> pc, seen |-> seen, recent |-> recent, retrieval |-> retrieval,
     prompt_tokens |-> prompt_tokens, result |-> result]
NewInvocation(pc) == Invocation(pc, None, <<>>, None, 0, None)

InvocationOver(inv) == inv.pc \in {"done", "raised"}

\* An invocation ends: pc, result.
InvReturn(inv, outcome) == [inv EXCEPT !.pc = "done", !.result = Some(Returned(outcome))]
InvRaise(inv, exc) == [inv EXCEPT !.pc = "raised", !.result = Some(RaisedWith(The(exc)))]
InvOutcome(inv, sent, exc) ==
    PipelineOutcome(TRUE, sent, The(inv.retrieval).mode, ErrorTypeOf(The(inv.retrieval)),
                    inv.prompt_tokens, exc)

Stepped(inv, sent) == [inv |-> inv, sent |-> sent]

\* on_message from one suspension point to the next, for the invocation inv
\* with arguments and collaborators' answers input and the listener's
\* identity bot_user_id: the invocation afterwards and the texts its sender
\* has accepted in between.
OnMessageStep(inv, input, bot_user_id) ==
    CASE inv.pc = "start" ->
           LET listener == [target_channel_id |-> input.target_channel_id, bot_user_id |-> bot_user_id]
               seen == [inv EXCEPT !.seen = Some(bot_user_id)]
           IN  IF ~should_respond(listener, input.message)
               THEN Stepped(InvReturn(seen, PipelineOutcome(FALSE, FALSE, None, None, 0, None)), <<>>)
               ELSE Stepped([seen EXCEPT !.pc = "await_history"], <<>>)
      [] inv.pc = "await_history" ->
           IF input.history.exc # None
           THEN Stepped(InvReturn(inv, PipelineOutcome(TRUE, FALSE, None, None, 0, input.history.exc)), <<>>)
           ELSE Stepped([inv EXCEPT !.pc = "await_retrieval",
                                    !.recent = collect(input.history.value, history_limit)], <<>>)
      [] inv.pc = "await_retrieval" ->
           LET memories == MemoriesOf(input.retrieved.value)
               prompt == build(pipeline_token_budget, Card, input.skill_rules_excerpt,
                               [k \in 1..Len(memories) |-> [text |-> <<memories[k].text>>]],
                               inv.recent)
           IN  IF input.retrieved.exc # None THEN Stepped(InvRaise(inv, input.retrieved.exc), <<>>)
               ELSE Stepped([inv EXCEPT !.pc = "await_completion",
                                        !.retrieval = Some(input.retrieved.value),
                                        !.prompt_tokens = prompt.estimated_input_tokens], <<>>)
      [] inv.pc = "await_completion" ->
           IF input.completion.exc # None
           THEN IF IsLlmClientError(The(input.completion.exc))
                THEN Stepped(InvReturn(inv, InvOutcome(inv, FALSE, input.completion.exc)), <<>>)
                ELSE Stepped(InvRaise(inv, input.completion.exc), <<>>)
           ELSE Stepped([inv EXCEPT !.pc = "await_send"], <<>>)
      [] inv.pc = "await_send" ->
           IF input.sent.exc # None
           THEN Stepped(InvReturn(inv, InvOutcome(inv, FALSE, input.sent.exc)), <<>>)
           ELSE Stepped(InvReturn(inv, InvOutcome(inv, TRUE, None)),
                        <<<<"**Kovach:**", input.completion.value.text>>>>)
      [] OTHER -> Stepped(inv, <<>>)

\* The loop gives the invocation of channel its next step.
InvocationStep(channel) ==
    /\ UNCHANGED <<r_vars, p_vars, b_vars, s_vars, a_vars, d_vars, h_vars, k_vars, e_vars, o_vars>>
    /\ m_inv[channel].pc \notin {"idle", "done", "raised"}
    /\ LET step == OnMessageStep(m_inv[channel], m_in[channel], m_identity)
       IN  /\ m_inv' = [m_inv EXCEPT ![channel] = step.inv]
           /\ m_sent' = [m_sent EXCEPT ![SenderOf(channel)] = @ \o step.sent]
    /\ UNCHANGED <<m_identity, m_in>>

\* on_ready: the callback writes the client's id to every listener; the
\* event comes again after a reconnect.
OnReady ==
    /\ UNCHANGED <<r_vars, p_vars, b_vars, s_vars, a_vars, d_vars, h_vars, k_vars, e_vars, o_vars>>
    /\ m_identity' = Some(client_user_id)
    /\ UNCHANGED <<m_in, m_inv, m_sent>>

ConcurrentInputs(channel) ==
    [target_channel_id : {channel},
     message : [channel_id : {channel}, author_id : {100}, author_is_bot : {FALSE},
                mentioned_user_ids : {{}, {client_user_id}}],
     skill_rules_excerpt : {Toks("skill", 0, 1)},
     history : {Raises("RuntimeError", <<>>),
                Returns(<<SourceMessage(channel, 10, FALSE, <<ChannelWord(channel)>>)>>)},
     retrieved : {Raises("OverflowError", RetrievalResult(<<>>, None, FALSE, None)),
                  Returns(RetrievalResult(<<MemoryRecord(ChannelWord(channel), "MEMORY.md", 4, "search")>>,
                                          Some("search"), TRUE, None))},
     completion : {Raises("LlmClientError", LlmResponse("", "", 0, 0)),
                   Raises("TimeoutError", LlmResponse("", "", 0, 0)),
                   Returns(LlmResponse(ChannelWord(channel), "claude", 100, 20))},
     sent : SendOutcomes]
\* One input per channel, each for its own channel.
ConcurrentInputSets ==
    { f \in [Channels -> UNION {ConcurrentInputs(c) : c \in Channels}] :
        \A c \in Channels : f[c] \in ConcurrentInputs(c) }
IdleInvocation == [c \in Channels |-> CHOOSE i \in ConcurrentInputs(c) : TRUE]

ConcurrentNext ==
    \/ \E channel \in Channels : InvocationStep(channel)
    \/ OnReady

----------------------------------------------------------------------------
(* runtime/app.py: RuntimeApp.start, stop and run over its services, with   *)
(* no background tasks.  A service's start() or stop() may raise.           *)

NumServices == 2
MaxAppCalls == 3
Services == 1..NumServices

\* Mutant: the services are stopped in list order.
stop_order_Forward == [k \in Services |-> k]

\* reversed(self._services)
stop_order == [k \in Services |-> NumServices + 1 - k]

ServiceCall(op, service, ok) == [op |-> op, service |-> service, ok |-> ok]

AppCallOver(result) ==
    /\ g_pc' = "ready"
    /\ g_result' = Some(result)

\* stop() from its beginning to its first await.
StopBegin ==
    IF ~a_started
    THEN /\ AppCallOver(Returned(TRUE))
         /\ UNCHANGED <<a_started, g_index>>
    ELSE /\ g_pc' = "stopping"
         /\ g_index' = 1
         /\ UNCHANGED <<a_started, g_result>>

\* start(), stop() or run() is called on the app, up to its first await.
AppCall(op) ==
    /\ UNCHANGED <<r_vars, p_vars, b_vars, s_vars, d_vars, h_vars, k_vars, e_vars, m_vars, w_vars, j_vars>>
    /\ g_pc = "ready"
    /\ g_calls < MaxAppCalls
    /\ g_calls' = g_calls + 1
    /\ g_call' = [op |-> op, started |-> a_started]
    /\ g_log' = <<>>
    /\ UNCHANGED <<g_running, g_shutdown>>
    /\ IF op = "stop" THEN StopBegin
       ELSE IF ~a_started
       THEN /\ g_pc' = "starting"
            /\ g_index' = 1
            /\ g_result' = None
            /\ UNCHANGED a_started
       ELSE IF op = "start"
       THEN /\ AppCallOver(Returned(TRUE))
            /\ UNCHANGED <<a_started, g_index>>
       ELSE /\ g_pc' = "waiting"
            /\ g_result' = None
            /\ UNCHANGED <<a_started, g_index>>

\* The start() of the service the loop is at ends; an exception leaves
\* start() and, start() being awaited before the try of run(), run() too.
ServiceStartDone ==
    /\ UNCHANGED <<r_vars, p_vars, b_vars, s_vars, d_vars, h_vars, k_vars, e_vars, m_vars, w_vars, j_vars>>
    /\ g_pc = "starting"
    /\ UNCHANGED <<g_call, g_calls, g_shutdown>>
    /\ \E ok \in BOOLEAN :
         /\ g_log' = Append(g_log, ServiceCall("start", g_index, ok))
         /\ IF ~ok
            THEN /\ AppCallOver(RaisedWith("RuntimeError"))
                 /\ UNCHANGED <<a_started, g_index, g_running>>
            ELSE /\ g_running' = g_running \cup {g_index}
                 /\ IF g_index < NumServices
                    THEN /\ g_index' = g_index + 1
                         /\ UNCHANGED <<a_started, g_pc, g_result>>
                    ELSE /\ a_started' = TRUE
                         /\ UNCHANGED g_index
                         /\ IF g_call.op = "run"
                            THEN g_pc' = "waiting" /\ UNCHANGED g_result
                            ELSE AppCallOver(Returned(TRUE))

\* A signal handler or the caller sets the shutdown event.
ShutdownSet ==
    /\ UNCHANGED <<r_vars, p_vars, b_vars, s_vars, a_vars, d_vars, h_vars, k_vars, e_vars, m_vars, w_vars, j_vars>>
    /\ g_pc # "idle"
    /\ ~g_shutdown
    /\ g_shutdown' = TRUE
    /\ UNCHANGED <<g_pc, g_call, g_calls, g_index, g_log, g_running, g_result>>

\* run(): stop_event.wait() returns and the finally clause calls stop().
ShutdownObserved ==
    /\ UNCHANGED <<r_vars, p_vars, b_vars, s_vars, d_vars, h_vars, k_vars, e_vars, m_vars, w_vars, j_vars>>
    /\ g_pc = "waiting"
    /\ g_shutdown
    /\ StopBegin
    /\ UNCHANGED <<g_call, g_calls, g_log, g_running, g_shutdown>>

\* The stop() of the service the loop is at ends; its Exception is logged
\* and the loop goes on.
ServiceStopDone ==
    /\ UNCHANGED <<r_vars, p_vars, b_vars, s_vars, d_vars, h_vars, k_vars, e_vars, m_vars, w_vars, j_vars>>
    /\ g_pc = "stopping"
    /\ UNCHANGED <<g_call, g_calls, g_shutdown>>
    /\ \E ok \in BOOLEAN :
         /\ g_log' = Append(g_log, ServiceCall("stop", stop_order[g_index], ok))
         /\ g_running' = IF ok THEN g_running \ {stop_order[g_index]} ELSE g_running
    /\ IF g_index < NumServices
       THEN /\ g_index' = g_index + 1
            /\ UNCHANGED <<a_started, g_pc, g_result>>
       ELSE /\ a_started' = FALSE
            /\ UNCHANGED g_index
            /\ AppCallOver(Returned(TRUE))

AppNext ==
    \/ \E op \in {"start", "stop", "run"} : AppCall(op)
    \/ ServiceStartDone
    \/ ShutdownSet
    \/ ShutdownObserved
    \/ ServiceStopDone

----------------------------------------------------------------------------
(* agent/hotswap.py: AgentIdentityManager.hot_swap.  An identity is its     *)
(* npc_name; the directory of an agent is named by the stripped npc_name.   *)

MaxSwaps == 2
AgentNames == {Name(FALSE, <<"kovach">>), Name(FALSE, <<"eliza">>)}
NpcNames == AgentNames \cup {Name(TRUE, <<"eliza">>)}

\* _agent_root: data_home / "agents" / npc_name.strip(), by its name
_agent_root(npc_name) == NameStrip(npc_name)

\* _archive_old_agent_root: the tree is moved to the archive if it exists.
_archive_old_agent_root(old_identity, roots, archive) ==
    LET old_root == _agent_root(old_identity)
    IN  IF roots[old_root] = "absent"
        THEN [roots |-> roots, archive |-> archive, archive_dir |-> None]
        ELSE [roots |-> [roots EXCEPT ![old_root] = "absent"],
              archive |-> Append(archive, old_identity),
              archive_dir |-> Some(Len(archive) + 1)]

\* _bootstrap_new_agent_root: directories and MEMORY.md made if missing.
_bootstrap_new_agent_root(root, roots) ==
    IF roots[root] = "absent" THEN [roots EXCEPT ![root] = "fresh"] ELSE roots

HotSwapResult(old_identity, new_identity, archive_dir, new_agent_root) ==
    [old_identity |-> old_identity, new_identity |-> new_identity,
     archive_dir |-> archive_dir, new_agent_root |-> new_agent_root]

\* hot_swap up to its await: the old tree archived, the new one made, the
\* hook asked; without a hook the identity is set and the call returns.
HotSwapStart ==
    /\ UNCHANGED <<r_vars, p_vars, b_vars, s_vars, a_vars, d_vars, h_vars, k_vars, e_vars, m_vars, g_vars, j_vars>>
    /\ w_pc = "ready"
    /\ w_swaps < MaxSwaps
    /\ w_swaps' = w_swaps + 1
    /\ UNCHANGED w_hook
    /\ \E new_identity \in NpcNames :
         LET archived == _archive_old_agent_root(w_identity, w_roots, w_archive)
         IN  /\ w_call' = [new_identity |-> new_identity, old_identity |-> w_identity,
                           roots |-> w_roots, archive |-> w_archive,
                           archive_dir |-> archived.archive_dir]
             /\ w_archive' = archived.archive
             /\ w_roots' = _bootstrap_new_agent_root(_agent_root(new_identity), archived.roots)
             /\ IF w_hook
                THEN /\ w_pc' = "await_hook"
                     /\ w_result' = None
                     /\ UNCHANGED w_identity
                ELSE /\ w_identity' = new_identity
                     /\ w_result' = Some(Returned(HotSwapResult(w_identity, new_identity,
                                             archived.archive_dir, _agent_root(new_identity))))
                     /\ UNCHANGED w_pc

\* refresh_identity ends: its Exception becomes HotSwapError, else the
\* identity is set and the result returned.
HookAnswered ==
    /\ UNCHANGED <<r_vars, p_vars, b_vars, s_vars, a_vars, d_vars, h_vars, k_vars, e_vars, m_vars, g_vars, j_vars>>
    /\ w_pc = "await_hook"
    /\ w_pc' = "ready"
    /\ UNCHANGED <<w_call, w_swaps, w_hook, w_roots, w_archive>>
    /\ \E ok \in BOOLEAN :
         IF ok
         THEN /\ w_identity' = w_call.new_identity
              /\ w_result' = Some(Returned(HotSwapResult(w_call.old_identity, w_call.new_identity,
                                      w_call.archive_dir, _agent_root(w_call.new_identity))))
         ELSE /\ w_result' = Some(RaisedWith("HotSwapError"))
              /\ UNCHANGED w_identity

ManagerNext ==
    \/ HotSwapStart
    \/ HookAnswered

----------------------------------------------------------------------------
(* memory/extractor.py: extract_and_append tasks created by                 *)
(* schedule_extraction on one event loop, appending to the journal files.   *)
(* A task runs from one await to the next without another task running in  *)
(* between; a file is the sequence of its characters.                       *)

ExtractionTasks == {1, 2}

\* f"\n## {timestamp.isoformat()}\n{facts}\n"
EntryText(entry) == <<"\n", "#", "#", " ", entry.timestamp, "\n">> \o entry.facts \o <<"\n">>

\* Mutant: the file is opened for writing, not for appending.
OpenAppendWrite_Truncating(content, text) == text

\* path.open("a") and handle.write(entry): the text goes after what the
\* file holds.
OpenAppendWrite(content, text) == content \o text

\* The files after the writes of one call.
JournalAfter(files, written) ==
    [path \in DOMAIN files |->
        IF written # <<>> /\ written[1].path = path
        THEN OpenAppendWrite(files[path], EntryText(written[1].entry))
        ELSE files[path]]

\* extract_and_append of a task up to its await.
TaskExtractStart(task) ==
    /\ UNCHANGED <<r_vars, p_vars, b_vars, s_vars, a_vars, d_vars, h_vars, k_vars, e_vars, m_vars, g_vars, w_vars>>
    /\ j_pc[task] = "start"
    /\ IF NameIsEmpty(NameStrip(j_in[task].npc_name))
       THEN /\ j_pc' = [j_pc EXCEPT ![task] = "over"]
            /\ j_result' = [j_result EXCEPT ![task] = Some(Returned(FALSE))]
       ELSE /\ j_pc' = [j_pc EXCEPT ![task] = "await_complete"]
            /\ UNCHANGED j_result
    /\ UNCHANGED <<j_in, j_files>>

\* The completion call of a task is over: the task runs to its return.
TaskCompletionAnswered(task) ==
    /\ UNCHANGED <<r_vars, p_vars, b_vars, s_vars, a_vars, d_vars, h_vars, k_vars, e_vars, m_vars, g_vars, w_vars>>
    /\ j_pc[task] = "await_complete"
    /\ j_pc' = [j_pc EXCEPT ![task] = "over"]
    /\ j_result' = [j_result EXCEPT ![task] = Some(AfterCompletion(j_in[task]).result)]
    /\ j_files' = JournalAfter(j_files, AfterCompletion(j_in[task]).written)
    /\ UNCHANGED j_in

JournalNamespaces == { Name(TRUE, <<"ns">>), agent_bot_name }
JournalPaths == { _daily_memory_path(n) : n \in JournalNamespaces }
JournalFacts == [t \in ExtractionTasks |-> <<"-", IF t = 1 THEN "f" ELSE "g">>]
JournalInputs(task) ==
    [namespace : {None}, npc_name : {Name(FALSE, <<"kovach">>), Name(TRUE, <<>>)},
     memory_namespace : {Some(n) : n \in JournalNamespaces},
     completion : {Raises("LlmClientError", <<>>), Returns(<<" ">>), Returns(JournalFacts[task])},
     files : {"ok", "open_error"}]
JournalInputSets ==
    { f \in [ExtractionTasks -> UNION {JournalInputs(t) : t \in ExtractionTasks}] :
        \A t \in ExtractionTasks : f[t] \in JournalInputs(t) }

JournalNext ==
    \/ \E task \in ExtractionTasks : TaskExtractStart(task)
    \/ \E task \in ExtractionTasks : TaskCompletionAnswered(task)

----------------------------------------------------------------------------
(* Specifications                                                           *)

\* An on_message call at position pc, its arguments drawn from args.
PipelineAt(pc, args) ==
    /\ p_pc = pc
    /\ p_args \in args
    /\ p_recent = <<>>
    /\ p_retrieval = None
    /\ p_excerpt = <<>>
    /\ p_prompt = None
    /\ p_response = None
    /\ p_calls = <<>>
    /\ p_answers = <<>>
    /\ p_outcome = None
    /\ p_exc = None
    /\ x_task = "none"

\* A collect call at position pc, collector, argument and provider drawn
\* from inputs.
CollectorAt(pc, inputs) ==
    /\ k_pc = pc
    /\ k_input \in inputs
    /\ k_calls = <<>>
    /\ k_result = <<>>
    /\ k_exc = None

\* An extract_and_append call at position pc, extractor, arguments and
\* collaborators' answers drawn from inputs; the journal is empty.
ExtractorAt(pc, inputs) ==
    /\ e_pc = pc
    /\ e_input \in inputs
    /\ e_calls = 0
    /\ e_journal = <<>>
    /\ e_result = None

\* One invocation per channel at position pc, the listeners' identity and
\* the invocations' inputs drawn from the given sets; nothing sent yet.
ConcurrentAt(pc, identities, inputs) ==
    /\ m_identity \in identities
    /\ m_in \in inputs
    /\ m_inv = [c \in Channels |-> NewInvocation(pc)]
    /\ m_sent = [c \in Channels |-> <<>>]

\* The app at position pc, no call made, no service started.
AppAt(pc) ==
    /\ g_pc = pc
    /\ g_call = [op |-> "none", started |-> FALSE]
    /\ g_calls = 0
    /\ g_index = 1
    /\ g_log = <<>>
    /\ g_running = {}
    /\ g_shutdown = FALSE
    /\ g_result = None

\* A manager at position pc with identity kovach, with or without a hook as
\* hooks says, over a data home whose agent directories are drawn from roots.
ManagerAt(pc, hooks, roots) ==
    /\ w_pc = pc
    /\ w_call = [new_identity |-> Name(FALSE, <<"kovach">>), old_identity |-> Name(FALSE, <<"kovach">>),
                 roots |-> [n \in AgentNames |-> "absent"], archive |-> <<>>, archive_dir |-> None]
    /\ w_swaps = 0
    /\ w_identity = Name(FALSE, <<"kovach">>)
    /\ w_hook \in hooks
    /\ w_roots \in roots
    /\ w_archive = <<>>
    /\ w_result = None

\* Extraction tasks at position pc, their inputs drawn from inputs, over
\* journal files drawn from files.
JournalAt(pc, inputs, files) ==
    /\ j_pc = [t \in ExtractionTasks |-> pc]
    /\ j_in \in inputs
    /\ j_result = [t \in ExtractionTasks |-> None]
    /\ j_files \in files

\* A handle call at position pc for a message with an id drawn from ids.
HandlerAt(pc, ids) ==
    /\ h_pc = pc
    /\ h_message_id \in ids
    /\ h_ops = <<>>
    /\ h_exc = None

\* A listener with a configuration drawn from configs, before the client
\* has logged in.
RouterAt(configs) ==
    /\ d_config \in configs
    /\ d_bot_user_id = None
    /\ d_log = <<>>
    /\ d_handled = <<>>

\* The runtime host, started or not.
RuntimeAt(started) == a_started = started

\* A run_forever call at position pc, its arguments drawn from inputs, the
\* stop event set or not as stops says.
SchedulerAt(pc, inputs, stops) ==
    /\ s_pc = pc
    /\ s_input \in inputs
    /\ s_stop \in stops
    /\ s_step = 1
    /\ s_calls = <<>>
    /\ s_runs = <<>>
    /\ s_exc = None
    /\ c_pc = "idle"
    /\ c_procs = <<>>

\* A build call at position pc, its arguments drawn from inputs.
BuildAt(pc, inputs) ==
    /\ b_pc = pc
    /\ b_input \in inputs
    /\ b_result = None

InitRetrieve ==
    /\ RetrieveAt("start", RetrieveInputs)
    /\ PipelineAt("idle", {None})
    /\ BuildAt("idle", {None})
    /\ SchedulerAt("idle", {[namespace |-> None, npc_name |-> None]}, {FALSE})
    /\ RuntimeAt(FALSE)
    /\ RouterAt({[channel_id |-> 200, ignore_bot_authors |-> TRUE]})
    /\ HandlerAt("idle", {None})
    /\ CollectorAt("idle", {[default_limit |-> 25, limit |-> None, provider |-> Returns(<<>>)]})
    /\ ExtractorAt("idle", {IdleExtraction})
    /\ ConcurrentAt("idle", {None}, {IdleInvocation})
    /\ AppAt("idle")
    /\ ManagerAt("idle", {FALSE}, {[n \in AgentNames |-> "absent"]})
    /\ JournalAt("idle", {[t \in ExtractionTasks |-> IdleExtraction]}, {[p \in JournalPaths |-> <<>>]})

SpecRetrieve == InitRetrieve /\ [][RetrieveNext]_vars

InitBuild ==
    /\ RetrieveAt("idle", {[query |-> <<>>, npc_name |-> None, top_k |-> None]})
    /\ PipelineAt("idle", {None})
    /\ BuildAt("start", {Some(i) : i \in BuildInputs})
    /\ SchedulerAt("idle", {[namespace |-> None, npc_name |-> None]}, {FALSE})
    /\ RuntimeAt(FALSE)
    /\ RouterAt({[channel_id |-> 200, ignore_bot_authors |-> TRUE]})
    /\ HandlerAt("idle", {None})
    /\ CollectorAt("idle", {[default_limit |-> 25, limit |-> None, provider |-> Returns(<<>>)]})
    /\ ExtractorAt("idle", {IdleExtraction})
    /\ ConcurrentAt("idle", {None}, {IdleInvocation})
    /\ AppAt("idle")
    /\ ManagerAt("idle", {FALSE}, {[n \in AgentNames |-> "absent"]})
    /\ JournalAt("idle", {[t \in ExtractionTasks |-> IdleExtraction]}, {[p \in JournalPaths |-> <<>>]})

SpecBuild == InitBuild /\ [][Build]_vars

InitPipeline ==
    /\ RetrieveAt("idle", {[query |-> <<>>, npc_name |-> None, top_k |-> None]})
    /\ PipelineAt("start", {Some(a) : a \in PipelineArgs})
    /\ BuildAt("idle", {None})
    /\ SchedulerAt("idle", {[namespace |-> None, npc_name |-> None]}, {FALSE})
    /\ RuntimeAt(FALSE)
    /\ RouterAt({[channel_id |-> 200, ignore_bot_authors |-> TRUE]})
    /\ HandlerAt("idle", {None})
    /\ CollectorAt("idle", {[default_limit |-> 25, limit |-> None, provider |-> Returns(<<>>)]})
    /\ ExtractorAt("idle", {IdleExtraction})
    /\ ConcurrentAt("idle", {None}, {IdleInvocation})
    /\ AppAt("idle")
    /\ ManagerAt("idle", {FALSE}, {[n \in AgentNames |-> "absent"]})
    /\ JournalAt("idle", {[t \in ExtractionTasks |-> IdleExtraction]}, {[p \in JournalPaths |-> <<>>]})

SpecPipeline == InitPipeline /\ [][PipelineNext]_vars

InitScheduler ==
    /\ RetrieveAt("idle", {[query |-> <<>>, npc_name |-> None, top_k |-> None]})
    /\ PipelineAt("idle", {None})
    /\ BuildAt("idle", {None})
    /\ SchedulerAt("start", SchedulerInputs, BOOLEAN)
    /\ RuntimeAt(TRUE)
    /\ RouterAt({[channel_id |-> 200, ignore_bot_authors |-> TRUE]})
    /\ HandlerAt("idle", {None})
    /\ CollectorAt("idle", {[default_limit |-> 25, limit |-> None, provider |-> Returns(<<>>)]})
    /\ ExtractorAt("idle", {IdleExtraction})
    /\ ConcurrentAt("idle", {None}, {IdleInvocation})
    /\ AppAt("idle")
    /\ ManagerAt("idle", {FALSE}, {[n \in AgentNames |-> "absent"]})
    /\ JournalAt("idle", {[t \in ExtractionTasks |-> IdleExtraction]}, {[p \in JournalPaths |-> <<>>]})

SpecScheduler == InitScheduler /\ [][SchedulerNext]_vars

\* The event loop resumes whatever is ready, a child that was killed ends,
\* and a wait under a timeout ends; that the interval elapses or that
\* somebody sets the stop event is not assumed.
SchedulerFairness ==
    /\ WF_vars(RunForeverStart)
    /\ WF_vars(CommunicateDone \/ TimeoutFires)
    /\ WF_vars(DrainDone)
    /\ WF_vars(StopObserved)

SpecSchedulerFair == SpecScheduler /\ SchedulerFairness

\* The scheduler task under the runtime host, which may shut down.
RuntimeNext ==
    \/ SchedulerNext
    \/ RuntimeStop

SpecRuntime == InitScheduler /\ [][RuntimeNext]_vars

InitRouter ==
    /\ RetrieveAt("idle", {[query |-> <<>>, npc_name |-> None, top_k |-> None]})
    /\ PipelineAt("idle", {None})
    /\ BuildAt("idle", {None})
    /\ SchedulerAt("idle", {[namespace |-> None, npc_name |-> None]}, {FALSE})
    /\ RuntimeAt(FALSE)
    /\ RouterAt(RouterConfigs)
    /\ HandlerAt("idle", {None})
    /\ CollectorAt("idle", {[default_limit |-> 25, limit |-> None, provider |-> Returns(<<>>)]})
    /\ ExtractorAt("idle", {IdleExtraction})
    /\ ConcurrentAt("idle", {None}, {IdleInvocation})
    /\ AppAt("idle")
    /\ ManagerAt("idle", {FALSE}, {[n \in AgentNames |-> "absent"]})
    /\ JournalAt("idle", {[t \in ExtractionTasks |-> IdleExtraction]}, {[p \in JournalPaths |-> <<>>]})

SpecRouter == InitRouter /\ [][RouterNext]_vars

InitHandler ==
    /\ RetrieveAt("idle", {[query |-> <<>>, npc_name |-> None, top_k |-> None]})
    /\ PipelineAt("pending", {Some(a) : a \in PipelineArgs})
    /\ BuildAt("idle", {None})
    /\ SchedulerAt("idle", {[namespace |-> None, npc_name |-> None]}, {FALSE})
    /\ RuntimeAt(FALSE)
    /\ RouterAt({[channel_id |-> 200, ignore_bot_authors |-> TRUE]})
    /\ HandlerAt("start", {None, Some(42)})
    /\ CollectorAt("idle", {[default_limit |-> 25, limit |-> None, provider |-> Returns(<<>>)]})
    /\ ExtractorAt("idle", {IdleExtraction})
    /\ ConcurrentAt("idle", {None}, {IdleInvocation})
    /\ AppAt("idle")
    /\ ManagerAt("idle", {FALSE}, {[n \in AgentNames |-> "absent"]})
    /\ JournalAt("idle", {[t \in ExtractionTasks |-> IdleExtraction]}, {[p \in JournalPaths |-> <<>>]})

SpecHandler == InitHandler /\ [][HandlerNext]_vars

InitCollector ==
    /\ RetrieveAt("idle", {[query |-> <<>>, npc_name |-> None, top_k |-> None]})
    /\ PipelineAt("idle", {None})
    /\ BuildAt("idle", {None})
    /\ SchedulerAt("idle", {[namespace |-> None, npc_name |-> None]}, {FALSE})
    /\ RuntimeAt(FALSE)
    /\ RouterAt({[channel_id |-> 200, ignore_bot_authors |-> TRUE]})
    /\ HandlerAt("idle", {None})
    /\ CollectorAt("start", CollectorInputs)
    /\ ExtractorAt("idle", {IdleExtraction})
    /\ ConcurrentAt("idle", {None}, {IdleInvocation})
    /\ AppAt("idle")
    /\ ManagerAt("idle", {FALSE}, {[n \in AgentNames |-> "absent"]})
    /\ JournalAt("idle", {[t \in ExtractionTasks |-> IdleExtraction]}, {[p \in JournalPaths |-> <<>>]})

SpecCollector == InitCollector /\ [][CollectorNext]_vars

InitExtractor ==
    /\ RetrieveAt("idle", {[query |-> <<>>, npc_name |-> None, top_k |-> None]})
    /\ PipelineAt("idle", {None})
    /\ BuildAt("idle", {None})
    /\ SchedulerAt("idle", {[namespace |-> None, npc_name |-> None]}, {FALSE})
    /\ RuntimeAt(FALSE)
    /\ RouterAt({[channel_id |-> 200, ignore_bot_authors |-> TRUE]})
    /\ HandlerAt("idle", {None})
    /\ CollectorAt("idle", {[default_limit |-> 25, limit |-> None, provider |-> Returns(<<>>)]})
    /\ ExtractorAt("start", ExtractorInputs)
    /\ ConcurrentAt("idle", {None}, {IdleInvocation})
    /\ AppAt("idle")
    /\ ManagerAt("idle", {FALSE}, {[n \in AgentNames |-> "absent"]})
    /\ JournalAt("idle", {[t \in ExtractionTasks |-> IdleExtraction]}, {[p \in JournalPaths |-> <<>>]})

SpecExtractor == InitExtractor /\ [][ExtractorNext]_vars

InitConcurrent ==
    /\ RetrieveAt("idle", {[query |-> <<>>, npc_name |-> None, top_k |-> None]})
    /\ PipelineAt("idle", {None})
    /\ BuildAt("idle", {None})
    /\ SchedulerAt("idle", {[namespace |-> None, npc_name |-> None]}, {FALSE})
    /\ RuntimeAt(FALSE)
    /\ RouterAt({[channel_id |-> 200, ignore_bot_authors |-> TRUE]})
    /\ HandlerAt("idle", {None})
    /\ CollectorAt("idle", {[default_limit |-> 25, limit |-> None, provider |-> Returns(<<>>)]})
    /\ ExtractorAt("idle", {IdleExtraction})
    /\ ConcurrentAt("start", {None, Some(client_user_id)}, ConcurrentInputSets)
    /\ AppAt("idle")
    /\ ManagerAt("idle", {FALSE}, {[n \in AgentNames |-> "absent"]})
    /\ JournalAt("idle", {[t \in ExtractionTasks |-> IdleExtraction]}, {[p \in JournalPaths |-> <<>>]})

SpecConcurrent == InitConcurrent /\ [][ConcurrentNext]_vars

InitApp ==
    /\ RetrieveAt("idle", {[query |-> <<>>, npc_name |-> None, top_k |-> None]})
    /\ PipelineAt("idle", {None})
    /\ BuildAt("idle", {None})
    /\ SchedulerAt("idle", {[namespace |-> None, npc_name |-> None]}, {FALSE})
    /\ RuntimeAt(FALSE)
    /\ RouterAt({[channel_id |-> 200, ignore_bot_authors |-> TRUE]})
    /\ HandlerAt("idle", {None})
    /\ CollectorAt("idle", {[default_limit |-> 25, limit |-> None, provider |-> Returns(<<>>)]})
    /\ ExtractorAt("idle", {IdleExtraction})
    /\ ConcurrentAt("idle", {None}, {IdleInvocation})
    /\ AppAt("ready")
    /\ ManagerAt("idle", {FALSE}, {[n \in AgentNames |-> "absent"]})
    /\ JournalAt("idle", {[t \in ExtractionTasks |-> IdleExtraction]}, {[p \in JournalPaths |-> <<>>]})

SpecApp == InitApp /\ [][AppNext]_vars

InitManager ==
    /\ RetrieveAt("idle", {[query |-> <<>>, npc_name |-> None, top_k |-> None]})
    /\ PipelineAt("idle", {None})
    /\ BuildAt("idle", {None})
    /\ SchedulerAt("idle", {[namespace |-> None, npc_name |-> None]}, {FALSE})
    /\ RuntimeAt(FALSE)
    /\ RouterAt({[channel_id |-> 200, ignore_bot_authors |-> TRUE]})
    /\ HandlerAt("idle", {None})
    /\ CollectorAt("idle", {[default_limit |-> 25, limit |-> None, provider |-> Returns(<<>>)]})
    /\ ExtractorAt("idle", {IdleExtraction})
    /\ ConcurrentAt("idle", {None}, {IdleInvocation})
    /\ AppAt("idle")
    /\ ManagerAt("ready", BOOLEAN, [AgentNames -> {"absent", "data"}])
    /\ JournalAt("idle", {[t \in ExtractionTasks |-> IdleExtraction]}, {[p \in JournalPaths |-> <<>>]})

SpecManager == InitManager /\ [][ManagerNext]_vars

InitJournal ==
    /\ RetrieveAt("idle", {[query |-> <<>>, npc_name |-> None, top_k |-> None]})
    /\ PipelineAt("idle", {None})
    /\ BuildAt("idle", {None})
    /\ SchedulerAt("idle", {[namespace |-> None, npc_name |-> None]}, {FALSE})
    /\ RuntimeAt(FALSE)
    /\ RouterAt({[channel_id |-> 200, ignore_bot_authors |-> TRUE]})
    /\ HandlerAt("idle", {None})
    /\ CollectorAt("idle", {[default_limit |-> 25, limit |-> None, provider |-> Returns(<<>>)]})
    /\ ExtractorAt("idle", {IdleExtraction})
    /\ ConcurrentAt("idle", {None}, {IdleInvocation})
    /\ AppAt("idle")
    /\ ManagerAt("idle", {FALSE}, {[n \in AgentNames |-> "absent"]})
    /\ JournalAt("start", JournalInputSets, [JournalPaths -> {<<>>, <<"x", "\n">>}])

SpecJournal == InitJournal /\ [][JournalNext]_vars

----------------------------------------------------------------------------
(* Claims about QmdAdapter.retrieve (SpecRetrieve)                          *)

ModeOfCall(call) == call.args[2]
QueryAttemptAnswered == Len(r_calls) >= 1 /\ r_pc # "await_query"
QueryAttemptSucceeded == Len(r_attempts) >= 1 /\ r_attempts[1].result # None
QueryAttemptFailed == QueryAttemptAnswered /\ ~QueryAttemptSucceeded

\* C1: when the query attempt fails for any reason (timeout, non-zero exit,
\* undecodable payload, runner exception) exactly one search attempt follows
\* it, with the fallback timeout; when it succeeds no search attempt is made;
\* the tool is never invoked more than twice, and the first invocation is the
\* query attempt with the query timeout.
C1_FallbackExactlyOnce ==
    /\ Len(r_calls) <= 2
    /\ Len(r_calls) >= 1 =>
         /\ ModeOfCall(r_calls[1]) = "query"
         /\ r_calls[1].timeout_seconds = query_timeout_seconds
    /\ Len(r_calls) = 2 => QueryAttemptFailed
    /\ QueryAttemptFailed =>
         /\ Len(r_calls) = 2
         /\ ModeOfCall(r_calls[2]) = "search"
         /\ r_calls[2].timeout_seconds = fallback_timeout_seconds
         /\ r_calls[2].timeout_seconds # query_timeout_seconds
    /\ QueryAttemptSucceeded => Len(r_calls) = 1

BothAttemptsFailed ==
    /\ Len(r_attempts) = 2
    /\ r_attempts[1].error_type # None
    /\ r_attempts[2].error_type # None

\* C2: retrieve always returns a RetrievalResult and never raises; when both
\* attempts fail the result has no records, no mode and a both_failed error
\* carrying the two attempts' failure kinds.
C2_AlwaysReturnsResult ==
    /\ r_pc # "raised"
    /\ (r_pc = "returned" /\ BothAttemptsFailed) =>
         /\ The(r_result).records = <<>>
         /\ The(r_result).mode = None
         /\ The(r_result).error =
                Some(RetrievalError("both_failed", r_attempts[1].error_type,
                                    r_attempts[2].error_type))

QueryOfCall(call) == call.args[6]
TopKOfCall(call) == call.args[5]

\* C13: the query handed to the tool, in either attempt, is the trimmed input
\* cut to at most max_query_chars characters (and trimmed again on the right),
\* never longer than the cap; both attempts of one call get the same query,
\* top_k and environment.
C13_QueryCapped ==
    \A k \in 1..Len(r_calls) :
        LET sent == QueryOfCall(r_calls[k])
            trimmed == strip(r_input.query)
        IN  /\ Len(sent) <= max_query_chars
            /\ IsPrefix(sent, trimmed)
            /\ Len(trimmed) <= max_query_chars => sent = trimmed
            /\ Len(trimmed) > max_query_chars =>
                    sent = rstrip(SubSeq(trimmed, 1, max_query_chars))
            /\ QueryOfCall(r_calls[k]) = QueryOfCall(r_calls[1])
            /\ TopKOfCall(r_calls[k]) = TopKOfCall(r_calls[1])
            /\ r_calls[k].env = r_calls[1].env

\* An input longer than the cap went to both attempts.
C13_Witness ==
    /\ Len(r_calls) = 2
    /\ Len(strip(r_input.query)) > max_query_chars
    /\ Len(QueryOfCall(r_calls[2])) = max_query_chars

QueryIsBlank == strip(r_input.query) = <<>>
NamespaceIsBlank ==
    strip(IF r_input.npc_name # None /\ The(r_input.npc_name) # <<>>
          THEN The(r_input.npc_name) ELSE settings_npc_name) = <<>>
TopKNotPositive == r_input.top_k # None /\ The(r_input.top_k) <= 0
InvalidKinds ==
    (IF QueryIsBlank THEN {"invalid_query"} ELSE {})
      \cup (IF NamespaceIsBlank THEN {"invalid_npc_name"} ELSE {})
      \cup (IF TopKNotPositive THEN {"invalid_top_k"} ELSE {})

\* C14: a call whose query is blank, whose namespace is blank or whose top_k
\* is not positive never invokes the tool: it returns at once a result with
\* no records, no mode and the error kind of an argument that is invalid
\* (the query before the namespace before top_k).
C14_InvalidArgumentsMakeNoCall ==
    (r_pc # "idle" /\ InvalidKinds # {}) =>
        /\ r_calls = <<>>
        /\ r_attempts = <<>>
        /\ r_pc \in {"start", "returned"}
        /\ r_pc = "returned" =>
             /\ The(r_result).records = <<>>
             /\ The(r_result).mode = None
             /\ The(r_result).error # None
             /\ The(The(r_result).error).type \in InvalidKinds
             /\ QueryIsBlank => The(The(r_result).error).type = "invalid_query"
             /\ (~QueryIsBlank /\ NamespaceIsBlank) =>
                    The(The(r_result).error).type = "invalid_npc_name"

\* top_k = 0 with a good query and namespace.
C14_Witness ==
    /\ r_pc = "returned"
    /\ InvalidKinds = {"invalid_top_k"}
    /\ r_calls = <<>>
    /\ The(The(r_result).error).type = "invalid_top_k"

ValidationKinds == {"invalid_query", "invalid_npc_name", "invalid_top_k"}
SearchAttempted == Len(r_calls) = 2 /\ ModeOfCall(r_calls[2]) = "search"

\* C15 as stated: a returned result carries an error only if the fallback
\* attempt was made, that is, error present implies used_fallback.
C15_ErrorImpliesUsedFallback ==
    r_pc = "returned" =>
        (The(r_result).error # None =>
            (The(r_result).used_fallback /\ SearchAttempted))

\* C15 amended: the error of a call that attempted anything comes with
\* used_fallback true and after the search attempt; the only errors with
\* used_fallback false are the validation errors, returned before any attempt.
C15_ErrorAfterAttemptImpliesUsedFallback ==
    r_pc = "returned" =>
        LET res == The(r_result)
        IN  /\ (res.error # None /\ r_calls # <<>>) =>
                 (res.used_fallback /\ SearchAttempted
                    /\ The(res.error).type = "both_failed")
            /\ (res.error # None /\ r_calls = <<>>) =>
                 (~res.used_fallback /\ The(res.error).type \in ValidationKinds)
            /\ res.used_fallback <=> SearchAttempted

\* Both attempts failed.
C15_Witness ==
    /\ r_pc = "returned"
    /\ The(r_result).error # None
    /\ The(The(r_result).error).type = "both_failed"
    /\ The(r_result).used_fallback
    /\ SearchAttempted

SearchAttemptSucceeded == Len(r_attempts) = 2 /\ r_attempts[2].result # None
RecordsCarry(res, mode) == \A k \in 1..Len(res.records) : res.records[k].mode = mode

\* C16: a returned result agrees with the attempts made: mode is search
\* exactly when the query attempt failed and the search attempt succeeded,
\* and then used_fallback is true, there is no error and every record is a
\* search record; mode is query exactly when the query attempt succeeded, and
\* then used_fallback is false and every record is a query record; a result
\* with an error has no records and no mode.
C16_ResultMatchesAttempts ==
    r_pc = "returned" =>
        LET res == The(r_result)
        IN  /\ res.mode = Some("search") <=>
                   (Len(r_attempts) = 2 /\ r_attempts[1].error_type # None
                      /\ SearchAttemptSucceeded)
            /\ res.mode = Some("search") =>
                   (res.used_fallback /\ res.error = None /\ RecordsCarry(res, "search"))
            /\ res.mode = Some("query") <=> QueryAttemptSucceeded
            /\ res.mode = Some("query") =>
                   (~res.used_fallback /\ res.error = None /\ RecordsCarry(res, "query"))
            /\ res.mode \in {None, Some("query"), Some("search")}
            /\ res.error # None => (res.records = <<>> /\ res.mode = None)

\* Scenario B: the query attempt times out and the search attempt returns the
\* one record fallback-memory from MEMORY.md with score 0.4.
C16_Witness ==
    /\ r_pc = "returned"
    /\ Len(r_attempts) = 2
    /\ r_attempts[1].error_type = Some("timeout")
    /\ The(r_result) =
           RetrievalResult(<<MemoryRecord("fallback-memory", "MEMORY.md", 4, "search")>>,
                           Some("search"), TRUE, None)

----------------------------------------------------------------------------
(* Claims about PromptBuilder.build (SpecBuild)                             *)

CountTok(text, sec, line) ==
    Cardinality({k \in 1..Len(text) : text[k] = Tok(sec, line)})

\* Some token of the input or of the fixed parts is missing from the prompts.
ContentDropped(in, r) ==
    \/ CountTok(r.system_prompt, "fixed", 0) < Len(_build_system_fixed(in.card))
    \/ CountTok(r.system_prompt, "skill", 0) < Len(in.excerpt)
    \/ CountTok(r.system_prompt, "skill_label", 0) < (IF in.excerpt # <<>> THEN SkillLabelTokens ELSE 0)
    \/ CountTok(r.system_prompt, "memory_header", 0) < MemoryHeaderTokens
    \/ \E i \in 1..Len(in.memories) :
          CountTok(r.system_prompt, "memory", i) < Len(MemoryLine(i, in.memories[i]))
    \/ in.memories = <<>> /\ CountTok(r.system_prompt, "memory_none", 0) < MemoryNoneTokens
    \/ CountTok(r.user_prompt, "user_prefix", 0) < UserPrefixTokens
    \/ \E i \in 1..Len(in.history) :
          CountTok(r.user_prompt, "history", i) < Len(HistoryLine(i, in.history[i]))
    \/ in.history = <<>> /\ CountTok(r.user_prompt, "history_none", 0) < HistoryNoneTokens
    \/ CountTok(r.user_prompt, "user_suffix", 0) < UserSuffixTokens

\* C9: the reported estimate is the token count of the two returned prompts
\* and does not exceed the budget.
C9_EstimateWithinBudget ==
    b_result # None =>
        /\ The(b_result).estimated_input_tokens
             = estimate_tokens(The(b_result).system_prompt)
                 + estimate_tokens(The(b_result).user_prompt)
        /\ The(b_result).estimated_input_tokens <= The(b_input).budget

\* The budget is below the fixed cost of the user prompt alone: both clamp
\* passes ran and the result fills the budget exactly.
C9_Witness ==
    /\ b_result # None
    /\ The(b_input).budget < UserPrefixTokens + HistoryNoneTokens + UserSuffixTokens
    /\ The(b_result).system_prompt = <<>>
    /\ The(b_result).estimated_input_tokens = The(b_input).budget

\* C10: whenever build drops content (excerpt shortened or left out, a memory
\* or history line left out, the clamp trimming a prompt) was_truncated is set.
C10_DroppedImpliesTruncated ==
    b_result # None =>
        (ContentDropped(The(b_input), The(b_result)) => The(b_result).was_truncated)

\* Only a memory line is dropped: excerpt and history are whole, no clamp.
C10_Witness ==
    /\ b_result # None
    /\ The(b_result).included_memory_count < Len(The(b_input).memories)
    /\ The(b_result).included_history_count = Len(The(b_input).history)
    /\ The(b_input).history # <<>>
    /\ CountTok(The(b_result).system_prompt, "skill", 0) = Len(The(b_input).excerpt)
    /\ The(b_result).estimated_input_tokens < The(b_input).budget
    /\ The(b_result).was_truncated

HistoryLinesOf(in) == [i \in 1..Len(in.history) |-> HistoryLine(i, in.history[i])]
IsHistoryToken(t) == t.sec = "history"

\* C11: the history lines in the prompt are the last included_history_count
\* lines of the given history, in their original order; for every budget the
\* selection is the longest suffix taken backward from the last line while
\* each line fits what is left of the budget.
C11_HistorySuffixInOrder ==
    b_pc = "built" =>
        LET in == The(b_input)
            r == The(b_result)
            lines == HistoryLinesOf(in)
            H == Len(lines)
            n == r.included_history_count
        IN  /\ n <= H
            /\ SelectSeq(r.user_prompt, IsHistoryToken) = Flatten(SubSeq(lines, H - n + 1, H))
            /\ \A budget \in 0..(estimate_tokens(Flatten(lines)) + 1) :
                 LET selected == _select_lines_from_tail_with_budget(lines, budget).selected
                     k == Len(selected)
                     cost == estimate_tokens(Flatten(selected))
                 IN  /\ selected = SubSeq(lines, H - k + 1, H)
                     /\ cost <= budget
                     /\ k < H => estimate_tokens(lines[H - k]) > budget - cost

\* Two of three messages fit: the prompt holds the last two, oldest first.
C11_Witness ==
    /\ b_pc = "built"
    /\ Len(The(b_input).history) = 3
    /\ The(b_result).included_history_count = 2
    /\ LET h == SelectSeq(The(b_result).user_prompt, IsHistoryToken)
       IN  h # <<>> /\ h[1].line = 2 /\ h[Len(h)].line = 3

MemoryLinesOf(in) == [i \in 1..Len(in.memories) |-> MemoryLine(i, in.memories[i])]
IsMemoryToken(t) == t.sec = "memory"

\* C12: the memory lines selected are the first included_memory_count lines of
\* the given sequence, so nothing after the first line that does not fit
\* is in the prompt; for every budget the selection is the longest prefix
\* whose lines each fit what is left, and truncation is flagged exactly when
\* fewer than all lines are selected; build reports that truncation.
C12_MemoryPrefix ==
    b_pc = "built" =>
        LET in == The(b_input)
            r == The(b_result)
            lines == MemoryLinesOf(in)
            M == Len(lines)
            n == r.included_memory_count
        IN  /\ n <= M
            /\ IsPrefix(SelectSeq(r.system_prompt, IsMemoryToken), Flatten(SubSeq(lines, 1, n)))
            /\ n < M => r.was_truncated
            /\ \A budget \in 0..(estimate_tokens(Flatten(lines)) + 1) :
                 LET res == _select_lines_with_budget(lines, budget)
                     k == Len(res.selected)
                     cost == estimate_tokens(Flatten(res.selected))
                 IN  /\ res.selected = SubSeq(lines, 1, k)
                     /\ cost <= budget
                     /\ k < M => estimate_tokens(lines[k + 1]) > budget - cost
                     /\ res.truncated <=> k < M

\* Five tokens are left for memories: the first line needs six and ends the
\* selection, the second needs five and is left out although it would fit.
C12_Witness ==
    /\ b_pc = "built"
    /\ The(b_input).excerpt = <<>>
    /\ The(b_input).budget = estimate_tokens(_build_system_fixed(Card)) + UserPrefixTokens
                                + UserSuffixTokens + 5
    /\ Len(The(b_input).memories) = 2
    /\ estimate_tokens(MemoryLinesOf(The(b_input))[1]) = 6
    /\ estimate_tokens(MemoryLinesOf(The(b_input))[2]) = 5
    /\ The(b_result).included_memory_count = 0
    /\ The(b_result).was_truncated

\* The number of the given lines that stand whole in the prompt.
WholeLinesIn(prompt, lines) ==
    Cardinality({ i \in 1..Len(lines) :
                    \A k \in 1..Len(lines[i]) :
                        \E j \in 1..Len(prompt) : prompt[j] = lines[i][k] })

\* C34: included_memory_count is the number of memory lines that stand whole
\* in the returned system_prompt and included_history_count the number of
\* history lines that stand whole in the returned user_prompt, also when
\* the final clamp has trimmed a prompt.
C34_CountsMatchReturnedPrompts ==
    b_pc = "built" =>
        LET in == The(b_input)
            r == The(b_result)
        IN  /\ r.included_memory_count = WholeLinesIn(r.system_prompt, MemoryLinesOf(in))
            /\ r.included_history_count = WholeLinesIn(r.user_prompt, HistoryLinesOf(in))

----------------------------------------------------------------------------
(* Claims about ResponsePipeline.on_message (SpecPipeline)                  *)

Ops(log) == [k \in 1..Len(log) |-> log[k].op]
Called(op) == \E k \in 1..Len(p_calls) : p_calls[k].op = op
Raised(op) == \E k \in 1..Len(p_answers) : p_answers[k].op = op /\ p_answers[k].exc # None
RaisedKind(op, exc) == \E k \in 1..Len(p_answers) : p_answers[k] = [op |-> op, exc |-> Some(exc)]
ReturnedOk(op) == \E k \in 1..Len(p_answers) : p_answers[k] = [op |-> op, exc |-> None]
MessageTriggers == should_respond(The(p_args).listener, The(p_args).message)

\* C3: no exception leaves on_message, whatever the collaborators do; a
\* failure of history collection, completion or send gives an outcome with
\* handled, not sent and error_type set.
C3_NoExceptionEscapes ==
    /\ p_pc # "raised"
    /\ p_exc = None
    /\ \A op \in {"get_recent_messages", "complete", "send_message"} :
         Raised(op) =>
            /\ p_outcome # None
            /\ The(p_outcome).handled
            /\ ~The(p_outcome).sent
            /\ The(p_outcome).error_type # None

\* C4: a message the trigger router rejects makes on_message return at once
\* with handled and sent false, and no collaborator is invoked and no
\* extraction scheduled.
C4_UntriggeredIsSilent ==
    (p_pc # "idle" /\ ~MessageTriggers) =>
        /\ p_pc \in {"start", "done"}
        /\ p_calls = <<>>
        /\ p_answers = <<>>
        /\ x_task = "none"
        /\ p_exc = None
        /\ p_pc = "done" => p_outcome = Some(PipelineOutcome(FALSE, FALSE, None, None, 0, None))

\* The persona is mentioned by a human, but in channel 201 instead of 200.
C4_Witness ==
    /\ p_pc = "done"
    /\ The(p_args).message.channel_id = 201
    /\ The(p_args).message.mentioned_user_ids = {999}
    /\ ~The(p_args).message.author_is_bot
    /\ The(p_args).listener.bot_user_id = Some(999)
    /\ ~The(p_outcome).handled

\* C5: when the completion call raises a completion error the outcome is
\* handled, not sent, with error_type the completion error kind; nothing is
\* sent and no extraction is scheduled.
C5_CompletionErrorIsControlled ==
    RaisedKind("complete", "LlmClientError") =>
        /\ p_pc = "done"
        /\ p_outcome # None
        /\ The(p_outcome).handled
        /\ ~The(p_outcome).sent
        /\ The(p_outcome).error_type = Some("LlmClientError")
        /\ ~Called("send_message")
        /\ ~Called("schedule_extraction")
        /\ x_task = "none"

C5_Witness ==
    /\ RaisedKind("complete", "LlmClientError")
    /\ The(p_args).has_extractor
    /\ p_pc = "done"

RetrievalFailed == p_retrieval # None /\ The(p_retrieval).error # None
BuildCall == p_calls[CHOOSE k \in 1..Len(p_calls) : p_calls[k].op = "build"]

\* C6: a retrieval error does not end the call: the prompt is built with no
\* memories and the LLM is asked; if completion and send succeed the reply
\* is sent, and every outcome carries the retrieval error kind, with
\* error_type none when sent.
C6_RetrievalErrorDoesNotAbort ==
    RetrievalFailed =>
        /\ p_pc \in {"await_completion", "await_send", "done"} =>
             /\ Called("build")
             /\ BuildCall.arg.memories = <<>>
             /\ The(p_prompt).included_memory_count = 0
             /\ Called("complete")
        /\ p_pc = "done" => Called("complete")
        /\ p_pc = "raised" => p_answers[Len(p_answers)].op # "retrieve"
        /\ p_outcome # None =>
             The(p_outcome).retrieval_error_type = Some(The(The(p_retrieval).error).type)
        /\ ReturnedOk("send_message") =>
             /\ p_outcome # None
             /\ The(p_outcome).handled
             /\ The(p_outcome).sent
             /\ The(p_outcome).error_type = None

\* Both retrieval stages failed and the reply went out all the same.
C6_Witness ==
    /\ RetrievalFailed
    /\ The(The(p_retrieval).error).type = "both_failed"
    /\ ReturnedOk("send_message")
    /\ The(p_outcome).sent
    /\ The(p_outcome).retrieval_error_type = Some("both_failed")

\* C7: once the send has succeeded the outcome is sent with error_type none,
\* whether scheduling the extraction raises or the task later fails; the
\* extraction is scheduled only after a successful send, and the task runs
\* only after on_message has returned.
C7_ReplyIndependentOfExtraction ==
    /\ ReturnedOk("send_message") =>
         /\ p_pc = "done"
         /\ p_outcome # None
         /\ The(p_outcome).handled
         /\ The(p_outcome).sent
         /\ The(p_outcome).error_type = None
    /\ Called("schedule_extraction") => ReturnedOk("send_message")
    /\ x_task # "none" => (p_pc = "done" /\ ReturnedOk("schedule_extraction"))

\* The reply was sent, the task was scheduled and has failed since.
C7_Witness ==
    /\ p_outcome # None
    /\ The(p_outcome).sent
    /\ x_task = "failed"

StageOrder == <<"get_recent_messages", "retrieve", "build", "complete", "send_message",
                "schedule_extraction">>
IsStage(op) == \E k \in 1..Len(StageOrder) : StageOrder[k] = op

\* C8: the stages are invoked in the order history, retrieval, build,
\* completion, send, extraction scheduling, each at most once and each only
\* after the previous call has answered; after a failure of history
\* collection, completion or send (formatting included) nothing more is invoked.
C8_StagesInOrder ==
    /\ IsPrefix(SelectSeq(Ops(p_calls), IsStage), StageOrder)
    /\ IsPrefix(Ops(p_answers), Ops(p_calls))
    /\ Len(p_calls) - Len(p_answers) <= 1
    /\ \A k \in 1..Len(p_answers) :
         (p_answers[k].exc # None
            /\ p_answers[k].op \in {"get_recent_messages", "complete", "format_reply",
                                    "send_message"})
         => (k = Len(p_answers) /\ k = Len(p_calls))

\* The send failed after every earlier stage had run.
C8_Witness ==
    /\ p_pc = "done"
    /\ Raised("send_message")
    /\ SelectSeq(Ops(p_calls), IsStage) = SubSeq(StageOrder, 1, 5)
    /\ The(p_args).has_extractor

----------------------------------------------------------------------------
(* Claims about QmdIndexScheduler (SpecScheduler, SpecSchedulerFair)        *)

\* The step of process i is over: _run_command has returned or raised.
StepFinished(i) == i < Len(c_procs) \/ (c_pc = "idle" /\ s_pc # "cancelled")

SchedulerSuspended == s_pc \in {"await_stop", "returned", "raised"}

\* C17: a step whose wait exceeded the timeout has its child killed and its
\* output drained before the step's result is produced, and the result is
\* the timeout result; and whenever run_once has returned (or run_forever
\* has ended) no process it spawned is still running.
C17_TimeoutKillsAndDrains ==
    /\ \A i \in 1..Len(c_procs) :
         c_procs[i].timed_out /\ StepFinished(i) =>
            /\ c_procs[i].killed
            /\ c_procs[i].drained
            /\ c_procs[i].result = Some(SchedulerCommandResult(-1, TRUE))
    /\ SchedulerSuspended => \A i \in 1..Len(c_procs) : c_procs[i].state # "running"

\* The names a scheduler of the model can be asked to refresh.
NamespacesOfModel ==
    ({ NameStrip(The(n)) : n \in (SchedulerNamespaces \cup SchedulerNpcNames) \ {None} }
        \cup { agent_qmd_index }) \ { Name(FALSE, <<>>) }

\* The directory the tool of a namespace works in.
ToolDirectory(namespace) == PathJoin(namespace_root(namespace), <<"qmd">>)

\* The roots env are distinct from the roots of namespace other, and neither
\* lies inside the tool directory of the other namespace.
IsolatedFrom(env, mine, other) ==
    LET theirs == scheduler_build_env(other)
    IN  /\ env.XDG_CONFIG_HOME # theirs.XDG_CONFIG_HOME
        /\ env.XDG_CACHE_HOME # theirs.XDG_CACHE_HOME
        /\ ~IsPrefix(ToolDirectory(other), env.XDG_CONFIG_HOME)
        /\ ~IsPrefix(ToolDirectory(other), env.XDG_CACHE_HOME)
        /\ ~IsPrefix(ToolDirectory(mine), theirs.XDG_CONFIG_HOME)
        /\ ~IsPrefix(ToolDirectory(mine), theirs.XDG_CACHE_HOME)

\* C18: the configuration root and the cache root handed to the tool for a
\* namespace are distinct from those of every other namespace, and no root
\* of one namespace lies inside the tool directory of the other.
C18_NamespaceIsolation ==
    \A i \in 1..Len(s_calls) : \A other \in NamespacesOfModel :
        other # run_once_name => IsolatedFrom(s_calls[i].env, run_once_name, other)

\* The runner calls made by run number run of run_once, in order.
CallsOfRun(run) == SelectSeq(s_calls, LAMBDA call : call.run = run)

StepSucceeded(call) == call.answer = Some(SchedulerCommandResult(0, FALSE))
StepFailed(call) == call.answer # None /\ ~StepSucceeded(call)

\* C19: every run_once invokes update and then embed, each at most once,
\* with the same environment and the same timeout; embed is invoked only
\* after update exited zero without timing out; the run returns true exactly
\* when both steps exited zero without timeout, and false on the first
\* timeout or non-zero exit, after which no further step is invoked.
C19_UpdateThenEmbed ==
    /\ \A i \in 1..Len(c_procs) :
         c_procs[i].timed_out /\ StepFinished(i) =>
            s_runs[s_calls[i].run].result = Some(FALSE)
    /\ \A run \in 1..Len(s_runs) :
            LET calls == CallsOfRun(run)
            IN  /\ IsPrefix([i \in 1..Len(calls) |-> calls[i].args],
                            [i \in 1..Len(Steps) |-> <<qmd_binary, Steps[i]>>])
                /\ \A i, j \in 1..Len(calls) :
                      /\ calls[i].env = calls[j].env
                      /\ calls[i].timeout_seconds = calls[j].timeout_seconds
                /\ Len(calls) = 2 => StepSucceeded(calls[1])
                /\ s_runs[run].result = Some(TRUE) <=>
                      Len(calls) = 2 /\ StepSucceeded(calls[1]) /\ StepSucceeded(calls[2])
                /\ \A i \in 1..Len(calls) :
                      StepFailed(calls[i]) => i = Len(calls) /\ s_runs[run].result = Some(FALSE)

RunForeverEnded == s_pc \in {"returned", "raised"}

\* C20: run_forever ends once the stop event is set, without the interval
\* having to elapse: a loop that waits while the event is set goes nowhere
\* but to its end; no run_once starts with the event set; and when the
\* event is set on entry run_once is never invoked.
C20_StopEndsRunForever ==
    /\ s_stop ~> RunForeverEnded
    /\ [][s_pc = "await_stop" /\ s_stop /\ s_pc' # s_pc => s_pc' = "returned" /\ s_runs' = s_runs]_vars
    /\ [](\A run \in 1..Len(s_runs) : ~s_runs[run].stop_at_start)
    /\ []((s_pc = "start" /\ s_stop) => [](s_runs = <<>> /\ s_calls = <<>>))

\* The event was set while the loop waited after its first run, and the loop
\* has returned without a second run.
C20_Witness ==
    /\ s_pc = "returned"
    /\ s_stop
    /\ Len(s_runs) = 1
    /\ s_runs[1].result = Some(TRUE)
    /\ Len(s_runs) < MaxCycles

----------------------------------------------------------------------------
(* Claims about the runtime shutdown (SpecRuntime)                          *)

\* C21: once the runtime has shut down the stop event of the scheduler loop
\* is set and the loop has ended by observing it: it was not aborted, and
\* no step was cut off with its child process still running.
C21_CooperativeShutdown ==
    ~a_started =>
        /\ s_stop
        /\ s_pc # "cancelled"
        /\ \A i \in 1..Len(c_procs) : c_procs[i].state # "running"

----------------------------------------------------------------------------
(* Claims about MentionRouter and MentionListener (SpecRouter)              *)

Mentioned(message, id) ==
    \/ id \in {message.mentions[i] : i \in 1..Len(message.mentions)}
    \/ Word("plain", id) \in {message.content[i] : i \in 1..Len(message.content)}
    \/ Word("nick", id) \in {message.content[i] : i \in 1..Len(message.content)}

\* C23: for a known identity the router returns true exactly when the
\* message is in the target channel, its author is not a bot (unless bot
\* authors are accepted) and the persona is mentioned.
C23_DispatchExactlyWhenAddressed ==
    \A i \in 1..Len(d_log) :
        LET message == d_log[i].message
        IN  d_log[i].bot_user_id # None /\ message.author # None =>
                d_log[i].outcome =
                    Returned(/\ message.channel = d_config.channel_id
                             /\ (~The(message.author).bot \/ ~d_config.ignore_bot_authors)
                             /\ Mentioned(message, The(d_log[i].bot_user_id)))

\* A raw nickname mention in the target channel is dispatched.
C23_Witness ==
    /\ Len(d_log) = 1
    /\ d_log[1].bot_user_id = Some(client_user_id)
    /\ d_log[1].message.channel = 200
    /\ d_log[1].message.mentions = <<>>
    /\ d_log[1].message.content = <<Word("nick", client_user_id)>>
    /\ d_log[1].outcome = Returned(TRUE)
    /\ d_handled = <<d_log[1].message>>

\* C24: the router never returns true for a message whose author is the
\* persona itself, whatever the ignore-bot-authors switch says.
C24_OwnMessagesNeverDispatch ==
    \A i \in 1..Len(d_log) :
        LET message == d_log[i].message
        IN  /\ d_log[i].bot_user_id # None
            /\ message.author # None
            /\ The(message.author).id = The(d_log[i].bot_user_id)
            => d_log[i].outcome # Returned(TRUE)

----------------------------------------------------------------------------
(* Claims about DiscordMessageHandler.handle (SpecHandler)                  *)

\* C25: for a message that does not pass the trigger router no operation is
\* invoked on the sender: no reaction, no typing indicator, no send_message.
C25_SilentOnMismatch ==
    ~MessageTriggers => h_ops = <<>> /\ ~Called("send_message")

----------------------------------------------------------------------------
(* Claims about RecentMessageCollector.collect (SpecCollector)              *)

KeyLeq(a, b) ==
    \/ a.created_at < b.created_at
    \/ a.created_at = b.created_at /\ a.message_id <= b.message_id

\* The collected message recent stands for the provider's message raw.
Represents(recent, raw) ==
    /\ recent.message_id = raw.message_id
    /\ recent.created_at = raw.created_at
    /\ recent.content = raw.content
    /\ recent.role = (IF raw.author_is_bot THEN "assistant" ELSE "user")
    /\ \A i, j \in 1..Len(recent.mentioned_user_ids) :
          i < j => recent.mentioned_user_ids[i] < recent.mentioned_user_ids[j]
    /\ {recent.mentioned_user_ids[i] : i \in 1..Len(recent.mentioned_user_ids)}
          = {raw.mentioned_user_ids[i] : i \in 1..Len(raw.mentioned_user_ids)}

\* result holds, one for one, the limit latest messages of raw.
IsLatestWindow(result, raw, limit) ==
    /\ Len(result) = (IF limit < Len(raw) THEN limit ELSE Len(raw))
    /\ \E f \in [1..Len(result) -> 1..Len(raw)] :
          /\ \A i, j \in 1..Len(result) : i # j => f[i] # f[j]
          /\ \A i \in 1..Len(result) : Represents(result[i], raw[f[i]])
          /\ \A j \in 1..Len(raw) :
                (\A i \in 1..Len(result) : f[i] # j) =>
                    \A i \in 1..Len(result) : KeyLeq(raw[j], raw[f[i]])

\* C26: collect returns at most limit messages, ascending by (created_at,
\* message_id), which are the limit latest of those the provider returned,
\* each with its role and its sorted duplicate-free mention ids; with a
\* limit <= 0 it raises ValueError and the provider is not called.
C26_CollectTailWindow ==
    /\ k_pc = "returned" =>
          /\ Len(k_result) <= effective_limit
          /\ \A i, j \in 1..Len(k_result) : i < j => KeyLeq(k_result[i], k_result[j])
          /\ IsLatestWindow(k_result, k_input.provider.value, effective_limit)
    /\ k_pc # "start" /\ effective_limit <= 0 =>
          k_pc = "raised" /\ k_exc = Some("ValueError") /\ k_calls = <<>>

\* Three messages out of order, one limit below their number.
C26_Witness ==
    /\ k_pc = "returned"
    /\ k_input.limit = Some(2)
    /\ Len(k_input.provider.value) = 3
    /\ k_input.provider.value[1].created_at = 11
    /\ k_input.provider.value[3].created_at = 10
    /\ k_input.provider.value[2].mentioned_user_ids = <<7, 3, 7>>
    /\ Len(k_result) = 2
    /\ k_result[2].mentioned_user_ids = <<3, 7>>

----------------------------------------------------------------------------
(* Claims about MemoryExtractor.extract_and_append (SpecExtractor)          *)

ExtractionOver == e_pc = "over"
CompletionFailed == e_calls = 1 /\ e_input.completion.exc # None
FactsEmpty == e_calls = 1 /\ e_input.completion.exc = None /\ strip(e_input.completion.value) = <<>>
NamespaceResolvesEmpty == NameIsEmpty(effective_namespace(e_input))

\* C27: extract_and_append never raises: it returns false, with nothing
\* written to the journal, when the namespace resolves to empty, when the
\* facts are empty and when the completion call fails; it returns true
\* exactly when one entry was appended.
C27_ExtractNeverRaises ==
    ExtractionOver =>
        /\ e_result \in {Some(Returned(TRUE)), Some(Returned(FALSE))}
        /\ (NamespaceResolvesEmpty \/ FactsEmpty \/ CompletionFailed) =>
              e_result = Some(Returned(FALSE)) /\ e_journal = <<>>
        /\ e_result = Some(Returned(TRUE)) <=> Len(e_journal) = 1
        /\ e_result = Some(Returned(FALSE)) => e_journal = <<>>

\* The completion call failed and the call returned false.
C27_Witness ==
    /\ ExtractionOver
    /\ CompletionFailed
    /\ ~NamespaceResolvesEmpty
    /\ e_result = Some(Returned(FALSE))

\* The candidates in the order of precedence, and the first non-empty one.
Candidates ==
    <<e_input.memory_namespace, e_input.namespace, Some(e_input.npc_name), Some(agent_qmd_index)>>
NonEmpty(candidate) == candidate # None /\ ~NameIsEmpty(The(candidate))
FirstNonEmpty ==
    LET i == CHOOSE i \in 1..4 : NonEmpty(Candidates[i]) /\ \A j \in 1..(i - 1) : ~NonEmpty(Candidates[j])
    IN  The(Candidates[i])

\* C28: when facts were extracted and the files can be written, the entry is
\* appended to the journal of the first non-empty of the explicit namespace,
\* the extractor's default, the persona name and the configured fallback;
\* a non-empty explicit namespace is written to whatever the persona name.
C28_NamespacePrecedence ==
    /\ ExtractionOver
    /\ e_input.completion.exc = None
    /\ strip(e_input.completion.value) # <<>>
    /\ e_input.files = "ok"
    /\ ~NameIsEmpty(NameStrip(FirstNonEmpty))
    => /\ Len(e_journal) = 1
       /\ e_journal[1].path = _daily_memory_path(FirstNonEmpty)

----------------------------------------------------------------------------
(* Claim about the error kinds of a RetrievalResult (SpecRetrieve)          *)

RetrievalTaxonomy ==
    {"invalid_query", "invalid_npc_name", "invalid_namespace", "invalid_top_k",
     "spawn_error", "timeout", "non_zero_exit", "parse_error", "both_failed"}

\* The error kinds a result carries: the top-level one and the nested ones.
ErrorKindsOf(result) ==
    IF result.error = None THEN {}
    ELSE {The(result.error).type}
           \cup The(result.error).query_error_type
           \cup The(result.error).fallback_error_type

\* C29: every error kind of a returned RetrievalResult, top-level or nested,
\* is in the retrieval taxonomy (a failure to launch the tool being
\* spawn_error, an undecodable payload parse_error).
C29_ErrorKindsInTaxonomy ==
    r_result # None => ErrorKindsOf(The(r_result)) \subseteq RetrievalTaxonomy

----------------------------------------------------------------------------
(* Claim about concurrent on_message invocations (SpecConcurrent)           *)

\* The invocation run alone from inv to its end: its final state and the
\* texts its sender accepted.
RECURSIVE RunAlone(_, _, _, _)
RunAlone(inv, input, bot_user_id, sent) ==
    IF InvocationOver(inv) THEN Stepped(inv, sent)
    ELSE LET step == OnMessageStep(inv, input, bot_user_id)
         IN  RunAlone(step.inv, input, bot_user_id, sent \o step.sent)

\* What the invocation of channel gives when nothing else runs, with the
\* identity it read when it started.
Alone(channel) == RunAlone(NewInvocation("start"), m_in[channel], The(m_inv[channel].seen), <<>>)

----------------------------------------------------------------------------
(* Claims about RuntimeApp (SpecApp)                                        *)

AppCallEnded(op) == g_pc = "ready" /\ g_call.op = op
CallsOf(op) == SelectSeq(g_log, LAMBDA e : e.op = op)
ServicesOf(calls) == [k \in 1..Len(calls) |-> calls[k].service]

\* C31: a run() on an app not yet started that returns has started every
\* service once, in list order, and after the shutdown event stopped every
\* service once, in reverse order, whether or not a stop() raised; start()
\* on a started app and stop() on an app not started call no service.
C31_StartStopOnceInOrder ==
    /\ AppCallEnded("run") /\ ~g_call.started /\ g_result = Some(Returned(TRUE)) =>
          /\ g_shutdown
          /\ ServicesOf(g_log) = [k \in 1..(2 * NumServices) |->
                                    IF k <= NumServices THEN k ELSE 2 * NumServices + 1 - k]
          /\ \A k \in 1..(2 * NumServices) :
                g_log[k].op = (IF k <= NumServices THEN "start" ELSE "stop")
    /\ AppCallEnded("start") /\ g_call.started => g_log = <<>> /\ a_started
    /\ AppCallEnded("stop") /\ ~g_call.started => g_log = <<>> /\ ~a_started

\* A run whose last service raised in stop(): the first was stopped all the same.
C31_Witness ==
    /\ AppCallEnded("run")
    /\ ~g_call.started
    /\ g_result = Some(Returned(TRUE))
    /\ Len(g_log) = 2 * NumServices
    /\ ~g_log[NumServices + 1].ok
    /\ g_log[2 * NumServices] = ServiceCall("stop", 1, TRUE)

\* C38: when run() has returned or raised, every service whose start()
\* completed in it has had its stop() called.
C38_NoServiceLeftStarted ==
    AppCallEnded("run") =>
        \A k \in 1..Len(g_log) :
            g_log[k].op = "start" /\ g_log[k].ok =>
                \E j \in (k + 1)..Len(g_log) :
                    g_log[j].op = "stop" /\ g_log[j].service = g_log[k].service

----------------------------------------------------------------------------
(* Claim about AgentIdentityManager.hot_swap (SpecManager)                  *)

\* C32: when hot_swap has raised HotSwapError because the hook raised, the
\* manager is as before the call: current_identity is the old identity and
\* the old agent's tree is where it was, nothing moved to the archive.
C32_FailedSwapLeavesManagerAsBefore ==
    w_pc = "ready" /\ w_result # None /\ The(w_result).exc = Some("HotSwapError") =>
        /\ w_identity = w_call.old_identity
        /\ w_roots[_agent_root(w_call.old_identity)] = w_call.roots[_agent_root(w_call.old_identity)]
        /\ w_archive = w_call.archive

----------------------------------------------------------------------------
(* Claim about the roots of the retriever and of the scheduler              *)

\* C33: the configuration root and the cache root that run_once hands to
\* update and embed for the namespace the scheduler was built for are the
\* roots that retrieve hands to query and search for the same namespace.
C33_SchedulerAndRetrieverShareRoots ==
    scheduler_namespace # None =>
        \A i \in 1..Len(s_calls) :
            s_calls[i].env = retrieve_build_env(retrieve_name(s_input.namespace))

----------------------------------------------------------------------------
(* Claim about the namespace of one message's retrieval and extraction      *)

\* _retrieve_memories: the name on_message hands to the retriever when it was
\* called with the persona name and the memory namespace of the extraction.
retrieval_npc_name(input) == Some(NameOr(input.memory_namespace, input.npc_name))

\* C35: when the extraction of a message has appended to the journal, the
\* namespace it resolved is the namespace the retrieval of the same message
\* resolved, and the journal lies under the directory the retriever reads
\* under, for every memory namespace, persona name and default namespace.
C35_ReadAndWrittenInSameNamespace ==
    e_pc = "over" /\ e_journal # <<>> =>
        LET read == retrieve_name(retrieval_npc_name(e_input))
        IN  /\ effective_namespace(e_input) = read
            /\ IsPrefix(retrieve_agent_root(read), e_journal[Len(e_journal)].path)

----------------------------------------------------------------------------
(* Claim about the outcomes of on_message (SpecPipeline)                    *)

SendCalls == SelectSeq(p_calls, LAMBDA call : call.op = "send_message")
SendCompleted == \E k \in 1..Len(p_answers) : p_answers[k].op = "send_message" /\ p_answers[k].exc = None

\* C36: in every outcome on_message returns, sent implies handled and no
\* error_type; handled without sent implies an error_type; not handled
\* implies no retrieval mode, no retrieval error, no error_type and zero
\* prompt_tokens; sent is true exactly when send_message completed without
\* raising; and send_message is invoked at most once per on_message.
C36_OutcomeIsConsistent ==
    /\ Len(SendCalls) <= 1
    /\ p_outcome # None =>
          LET o == The(p_outcome)
          IN  /\ o.sent => o.handled /\ o.error_type = None
              /\ o.handled /\ ~o.sent => o.error_type # None
              /\ ~o.handled => /\ o.retrieval_mode = None
                               /\ o.retrieval_error_type = None
                               /\ o.error_type = None
                               /\ o.prompt_tokens = 0
              /\ o.sent <=> SendCompleted

\* send_message was invoked once and raised: handled, not sent, the error reported.
C36_Witness ==
    /\ p_outcome # None
    /\ Len(SendCalls) = 1
    /\ ~SendCompleted
    /\ The(p_outcome).handled /\ ~The(p_outcome).sent
    /\ The(p_outcome).error_type = Some("HTTPException")
    /\ The(p_outcome).prompt_tokens > 0

----------------------------------------------------------------------------
(* Claim about the journal under concurrent extraction tasks (SpecJournal)  *)

TaskPath(task) == _daily_memory_path(effective_namespace(j_in[task]))
TaskEntry(task) == EntryText([timestamp |-> now, facts |-> strip(j_in[task].completion.value)])

\* C37: in every step a journal file either stays as it is or has exactly
\* the whole entry of one task that returns true in that step appended after
\* all the characters it held, and a task that returns true has appended its
\* entry to the file of its namespace: entries of concurrent tasks are never
\* interleaved and characters once written are never altered.
C37_JournalAppendOnly ==
    [][ /\ \A path \in JournalPaths :
             \/ j_files'[path] = j_files[path]
             \/ \E task \in ExtractionTasks :
                   /\ j_result[task] = None
                   /\ j_result'[task] = Some(Returned(TRUE))
                   /\ TaskPath(task) = path
                   /\ j_files'[path] = j_files[path] \o TaskEntry(task)
        /\ \A task \in ExtractionTasks :
             j_result[task] = None /\ j_result'[task] = Some(Returned(TRUE)) =>
                j_files'[TaskPath(task)] = j_files[TaskPath(task)] \o TaskEntry(task)
      ]_vars

\* Both tasks were awaiting their completions together and both returned true
\* for the same namespace: the file holds what it held, then the entry of
\* the second task, then the entry of the first.
C37_Witness ==
    /\ \A task \in ExtractionTasks : j_pc[task] = "over" /\ j_result[task] = Some(Returned(TRUE))
    /\ TaskPath(1) = TaskPath(2)
    /\ j_files[TaskPath(1)] = <<"x", "\n">> \o TaskEntry(2) \o TaskEntry(1)

----------------------------------------------------------------------------
(* Claim about the refresh loop after failed cycles (SpecScheduler)         *)

\* C39: run_forever ends only by observing the stop event: whatever a cycle
\* of run_once came to (a timeout, a non-zero exit, the tool failing to
\* launch), the loop is still there for the next cycle until the event is
\* set.
C39_LoopSurvivesFailedCycles ==
    RunForeverEnded => s_pc = "returned" /\ s_stop

----------------------------------------------------------------------------
(* Claim about the child processes after shutdown (SpecRuntime)             *)

StepInFlight == Len(c_procs) > 0 /\ CurrentProcess.result = None

\* C40: once RuntimeApp.stop has completed, no child process that a step of
\* the scheduler spawned is still running, also when the shutdown came
\* while an update or embed step was in flight.
C40_NoSubprocessOutlivesStop ==
    ~a_started => ~(StepInFlight /\ CurrentProcess.state = "running")

====
